---- MODULE Spec2Model ----
(***************************************************************************)
(* Page-sequencing and chunk-assembly pipeline of the PDF translator.      *)
(*                                                                         *)
(* A JavaScript string is a sequence of characters; a character is a      *)
(* one-element TLA+ string, and a Hebrew letter is written by its code    *)
(* point ("U+05E9").  undefined optional strings are written as the empty *)
(* string: every read of chapterTitle / sectionTitle in the program goes  *)
(* through a truthiness test or `|| ''`.                                   *)
(***************************************************************************)
EXTENDS Integers, Sequences, FiniteSets, TLC

VARIABLES
    pipeline,         \* which main is running: "translate" | "sheets" | "none"
    pc,               \* position of main
    imagePaths,       \* pages returned by the renderer (page ids 1..N)
    i,                \* index of the page loop (0-based, as in the code)
    results,          \* results: TranslationResult[]
    previousContext,  \* argument of the current processPage call
    chapterContext,   \* argument of the current processPage call
    retryCount,       \* processPage: retryCount
    attempts,         \* attempts made by the current processPage call
    retryDelays,      \* delay(3000) calls of the current processPage call
    tempDir,          \* TRUE while temp_pages exists
    translationText,  \* main: translationText
    chunks,           \* main: chunks
    chunkSummaries,   \* main: chunkSummaries
    structuredSummary,\* main: structuredSummary
    written,          \* names of the output files written so far
    sheetRows,        \* rows appended to the spreadsheet (sheets pipeline)
    exitCode,         \* process exit code, -1 while running
    inTranslation,    \* input of a direct call of a pure function
    inSummary,        \* input of a direct call of a pure function
    inMaxChars,       \* input of a direct call of createChunks
    inKeys,           \* the keys of the object JSON.parse gave processPage
    inRows,           \* input of a direct call of combineTranslations
    combined,         \* result of a direct call of combineTranslations
    verdict,          \* result of a direct call of isValidTranslation
    config,           \* .env.local: "missing", or the set of variables it defines
    input,            \* the input path: was it given, does the file exist
    inFlight,         \* model calls dispatched and not yet settled
    invoked,          \* page numbers processPage was invoked with, in order
    pageDelays,       \* page numbers after which main awaited delay(1000)
    summaryErrors,    \* chunk indices whose summarization call threw
    summaryCalls,     \* chunk indices summarizeChunk was called with, in order
    chunkDelays       \* chunk indices after which main awaited delay(1000)

vars == <<pipeline, pc, imagePaths, i, results, previousContext, chapterContext,
          retryCount, attempts, retryDelays, tempDir, translationText, chunks,
          chunkSummaries, structuredSummary, written, sheetRows, exitCode,
          inTranslation, inSummary, inMaxChars, inKeys, inRows, combined, verdict,
          config, input, inFlight, invoked, pageDelays, summaryErrors,
          summaryCalls, chunkDelays>>

----------------------------------------------------------------------------
(* JavaScript string primitives                                            *)

Max(a, b) == IF a > b THEN a ELSE b
Min(a, b) == IF a < b THEN a ELSE b

UpperCase == <<"A", "B", "C", "D", "E", "F", "G", "H", "I", "J", "K", "L", "M",
               "N", "O", "P", "Q", "R", "S", "T", "U", "V", "W", "X", "Y", "Z">>
LowerCase == <<"a", "b", "c", "d", "e", "f", "g", "h", "i", "j", "k", "l", "m",
               "n", "o", "p", "q", "r", "s", "t", "u", "v", "w", "x", "y", "z">>

LowerOf ==
    [c \in {UpperCase[n] : n \in 1..Len(UpperCase)} |->
        LowerCase[CHOOSE n \in 1..Len(UpperCase) : UpperCase[n] = c]]

\* String.prototype.toLowerCase, one character
LowerChar(c) == IF c \in DOMAIN LowerOf THEN LowerOf[c] ELSE c

\* String.prototype.toLowerCase
toLowerCase(s) == [n \in 1..Len(s) |-> LowerChar(s[n])]

WhiteSpace == {" ", "\n", "\t"}

\* String.prototype.trim
trim(s) ==
    IF \A n \in 1..Len(s) : s[n] \in WhiteSpace THEN <<>>
    ELSE LET lead == CHOOSE k \in 0..(Len(s) - 1) :
                         /\ s[k + 1] \notin WhiteSpace
                         /\ \A m \in 1..k : s[m] \in WhiteSpace
             trail == CHOOSE k \in 0..(Len(s) - 1) :
                          /\ s[Len(s) - k] \notin WhiteSpace
                          /\ \A m \in 1..k : s[Len(s) + 1 - m] \in WhiteSpace
         IN  SubSeq(s, lead + 1, Len(s) - trail)

\* String.prototype.includes
includes(s, sub) ==
    \/ sub = <<>>
    \/ \E n \in 0..(Len(s) - Len(sub)) :
          s[n + 1] = sub[1] /\ SubSeq(s, n + 1, n + Len(sub)) = sub

\* String.prototype.slice(start) with a negative start
sliceFromEnd(s, count) == SubSeq(s, Max(Len(s) - count, 0) + 1, Len(s))

\* String.prototype.repeat
repeat(c, n) == [m \in 1..n |-> c]

Digits == <<"0", "1", "2", "3", "4", "5", "6", "7", "8", "9">>

\* template-literal interpolation of a non-negative integer
RECURSIVE NumToString(_)
NumToString(n) ==
    IF n < 10 THEN <<Digits[n + 1]>>
    ELSE NumToString(n \div 10) \o <<Digits[(n % 10) + 1]>>

----------------------------------------------------------------------------
(* isValidTranslation                                                      *)

failureIndicators == <<
    <<"I", "'", "m", " ", "u", "n", "a", "b", "l", "e", " ", "t", "o", " ", "p", "r", "o", "v", "i", "d", "e">>,
    <<"I", " ", "c", "a", "n", "n", "o", "t", " ", "p", "r", "o", "v", "i", "d", "e">>,
    <<"u", "n", "a", "b", "l", "e", " ", "t", "o">>,
    <<"U+05DC", "U+05D0", " ", "U+05E0", "U+05D9", "U+05EA", "U+05DF", " ", "U+05DC", "U+05EA", "U+05E8", "U+05D2", "U+05DD">>,
    <<"U+05DC", "U+05D0", " ", "U+05E0", "U+05D9", "U+05EA", "U+05DF", " ", "U+05D4", "U+05D9", "U+05D4">>,
    <<"U+05E9", "U+05D2", "U+05D9", "U+05D0", "U+05D4", " ", "U+05D1", "U+05E2", "U+05D9", "U+05D1", "U+05D5", "U+05D3">>,
    <<"e", "r", "r", "o", "r">>,
    <<"f", "a", "i", "l", "e", "d">> >>

MinFieldLength == 10

\* isValidTranslation without its check of the summary
isValidTranslationOnly(translation, summary) ==
    IF translation = <<>> \/ Len(trim(translation)) < MinFieldLength THEN FALSE
    ELSE ~ \E n \in 1..Len(failureIndicators) :
               includes(toLowerCase(translation), toLowerCase(failureIndicators[n]))

isValidTranslation(translation, summary) ==
    IF translation = <<>> \/ Len(trim(translation)) < MinFieldLength THEN FALSE
    ELSE IF summary = <<>> \/ Len(trim(summary)) < MinFieldLength THEN FALSE
    ELSE LET lowerTranslation == toLowerCase(translation)
             lowerSummary == toLowerCase(summary)
         IN  ~ \E n \in 1..Len(failureIndicators) :
                   \/ includes(lowerTranslation, toLowerCase(failureIndicators[n]))
                   \/ includes(lowerSummary, toLowerCase(failureIndicators[n]))

----------------------------------------------------------------------------
(* processPage: results and the retry loop                                 *)

maxRetries == 3

\* the loop test with a strict comparison
LoopContinuesStrict(count, limit) == count < limit

\* `while (retryCount <= maxRetries)`
LoopContinues(count, limit) == count <= limit

\* a delay after every failed attempt, the last one included
DelayBeforeRetryAlways(count, limit) == TRUE

\* `if (retryCount <= maxRetries)` guarding `await delay(3000)`
DelayBeforeRetry(count, limit) == count <= limit

\* the value processPage returns from inside the retry loop
OKResult(pageNumber, reply, count) ==
    [pageNumber |-> pageNumber,
     translation |-> reply.translation,
     summary |-> reply.summary,
     articleTitle |-> reply.articleTitle,
     chapterTitle |-> reply.chapterTitle,
     sectionTitle |-> reply.sectionTitle,
     status |-> "OK",
     retryCount |-> count]

\* an exhausted result marked for a later retry
ExhaustedResultRetry(pageNumber, limit) ==
    [pageNumber |-> pageNumber,
     translation |-> <<"U+05E9", "U+05D2", "U+05D9", "U+05D0", "U+05D4">>,
     summary |-> <<"R", "E", "T", "R", "Y">>,
     articleTitle |-> <<"U+05E9", "U+05D2", "U+05D9", "U+05D0", "U+05D4">>,
     chapterTitle |-> <<>>,
     sectionTitle |-> <<>>,
     status |-> "RETRY",
     retryCount |-> limit + 1]

\* an exhausted result that carries the article title as its chapter title
ExhaustedResultTitled(pageNumber, limit) ==
    [pageNumber |-> pageNumber,
     translation |-> <<"U+05E9", "U+05D2", "U+05D9", "U+05D0", "U+05D4">>,
     summary |-> <<"F", "A", "I", "L", "E", "D">>,
     articleTitle |-> <<"U+05E9", "U+05D2", "U+05D9", "U+05D0", "U+05D4">>,
     chapterTitle |-> <<"U+05E9", "U+05D2", "U+05D9", "U+05D0", "U+05D4">>,
     sectionTitle |-> <<>>,
     status |-> "FAILED",
     retryCount |-> limit + 1]

\* the value processPage returns once all retries are exhausted
ExhaustedResult(pageNumber, limit) ==
    [pageNumber |-> pageNumber,
     translation |->
        <<"U+05E9", "U+05D2", "U+05D9", "U+05D0", "U+05D4", " ", "U+05D1", "U+05E2", "U+05D9", "U+05D1", "U+05D5", "U+05D3", " ", "U+05D3", "U+05E3", " ">>
        \o NumToString(pageNumber) \o <<" ", "-", " ">> \o NumToString(limit + 1)
        \o <<" ", "U+05E0", "U+05D9", "U+05E1", "U+05D9", "U+05D5", "U+05E0", "U+05D5", "U+05EA", " ", "U+05E0", "U+05DB", "U+05E9", "U+05DC", "U+05D5">>,
     summary |->
        <<"F", "A", "I", "L", "E", "D", " ", "-", " ">> \o NumToString(limit + 1)
        \o <<" ", "a", "t", "t", "e", "m", "p", "t", "s", " ", "-", " ", "m", "a", "n", "u", "a", "l", " ", "r", "e", "v", "i", "e", "w", " ", "n", "e", "e", "d", "e", "d">>,
     articleTitle |-> <<"U+05E9", "U+05D2", "U+05D9", "U+05D0", "U+05D4">>,
     chapterTitle |-> <<>>,
     sectionTitle |-> <<>>,
     status |-> "FAILED",
     retryCount |-> limit + 1]

\* an errorResult that counts the failed processing as one retry
CriticalResultCounted(pageNumber) ==
    [pageNumber |-> pageNumber,
     translation |-> <<"U+05E9", "U+05D2", "U+05D9", "U+05D0", "U+05D4">>,
     summary |-> <<"F", "A", "I", "L", "E", "D">>,
     articleTitle |-> <<"U+05E9", "U+05D2", "U+05D9", "U+05D0", "U+05D4">>,
     chapterTitle |-> <<>>,
     sectionTitle |-> <<>>,
     status |-> "FAILED",
     retryCount |-> 1]

\* the errorResult main builds in its per-page catch (sheets pipeline)
CriticalResult(pageNumber) ==
    [pageNumber |-> pageNumber,
     translation |->
        <<"U+05E9", "U+05D2", "U+05D9", "U+05D0", "U+05D4", " ", "U+05E7", "U+05E8", "U+05D9", "U+05D8", "U+05D9", "U+05EA", " ", "U+05D1", "U+05E2", "U+05D9", "U+05D1", "U+05D5", "U+05D3", " ", "U+05D3", "U+05E3", " ">>
        \o NumToString(pageNumber),
     summary |-> <<"F", "A", "I", "L", "E", "D", " ", "-", " ", "C", "r", "i", "t", "i", "c", "a", "l", " ", "e", "r", "r", "o", "r">>,
     articleTitle |-> <<"U+05E9", "U+05D2", "U+05D9", "U+05D0", "U+05D4">>,
     chapterTitle |-> <<>>,
     sectionTitle |-> <<>>,
     status |-> "FAILED",
     retryCount |-> 0]

\* an attempt that is accepted as soon as its content parses
AttemptSucceedsUnvalidated(reply) == reply.kind = "json"

\* one pass through the try block of the retry loop: TRUE when it reaches the
\* return, FALSE when anything in it throws (transport error, empty content,
\* JSON.parse failure, failed validation)
AttemptSucceeds(reply) ==
    /\ reply.kind = "json"
    /\ isValidTranslation(reply.translation, reply.summary)

----------------------------------------------------------------------------
(* main: context preparation                                               *)

ContextLength == 200

ArrowSeparator == <<" ", ">", " ">>

\* the `for (let j = i - 1; j >= 0; j--)` scan; j is the code's 0-based index
RECURSIVE ScanChapter(_, _, _)
ScanChapter(res, j, context) ==
    IF j < 0 THEN context
    ELSE LET prevChapter == res[j + 1].chapterTitle
             prevSection == res[j + 1].sectionTitle
         IN  IF prevChapter # <<>> /\ context = <<>>
             THEN IF prevSection # <<>>
                  THEN prevChapter \o ArrowSeparator \o prevSection
                  ELSE prevChapter
             ELSE IF prevSection # <<>> /\ ~ includes(context, <<">">>)
                  THEN ScanChapter(res, j - 1, prevSection)
                  ELSE ScanChapter(res, j - 1, context)

\* `i > 0 && results[i - 1]?.status === 'OK'`
PredecessorOK(res, index) ==
    index > 0 /\ index <= Len(res) /\ res[index].status = "OK"

\* the chapter scan run whatever the status of the preceding page
PrepareContextAlwaysScans(res, index) ==
    [previousContext |-> IF PredecessorOK(res, index)
                         THEN sliceFromEnd(res[index].translation, ContextLength)
                         ELSE <<>>,
     chapterContext |-> IF index > 0 THEN ScanChapter(res, index - 1, <<>>) ELSE <<>>]

\* translate pipeline: previousContext and chapterContext for the page at index
PrepareContext(res, index) ==
    IF PredecessorOK(res, index)
    THEN [previousContext |-> sliceFromEnd(res[index].translation, ContextLength),
          chapterContext |-> ScanChapter(res, index - 1, <<>>)]
    ELSE [previousContext |-> <<>>, chapterContext |-> <<>>]

\* sheets pipeline: only previousContext is prepared
PrepareContextSheets(res, index) ==
    IF PredecessorOK(res, index)
    THEN [previousContext |-> sliceFromEnd(res[index].translation, ContextLength),
          chapterContext |-> <<>>]
    ELSE [previousContext |-> <<>>, chapterContext |-> <<>>]

----------------------------------------------------------------------------
(* main: assembly of the full translation                                  *)

RuleWidth == 80

NewLine == <<"\n">>
BlankLine == <<"\n", "\n">>

\* no result is passed over
IsSkippedNever(result) == FALSE

\* `if (result.status !== 'OK') continue;` of the assembly and of createChunks
IsSkipped(result) == result.status # "OK"

\* a chapter title that is not compared with the last one
IsNewChapterUncompared(result, lastChapter) == result.chapterTitle # <<>>

\* `result.chapterTitle && result.chapterTitle !== lastChapter`
IsNewChapter(result, lastChapter) ==
    result.chapterTitle # <<>> /\ result.chapterTitle # lastChapter

\* a section title that is not compared with the last one
IsNewSectionUncompared(result, lastSection) == result.sectionTitle # <<>>

\* `result.sectionTitle && result.sectionTitle !== lastSection`
IsNewSection(result, lastSection) ==
    result.sectionTitle # <<>> /\ result.sectionTitle # lastSection

\* the three `translationText +=` of a chapter heading
ChapterHeading(title) ==
    BlankLine \o repeat("=", RuleWidth) \o NewLine
    \o title \o NewLine
    \o repeat("=", RuleWidth) \o BlankLine

\* the `translationText +=` of a section heading
SectionHeading(title) ==
    NewLine \o <<"-", "-", "-", " ">> \o title \o <<" ", "-", "-", "-">> \o BlankLine

\* a chapter heading that leaves the tracked chapter unset
TrackedChapterUnset(result) == <<>>

\* `lastChapter = result.chapterTitle;`
TrackedChapter(result) == result.chapterTitle

\* one iteration of `for (const result of results)` of the assembly;
\* acc = [text, lastChapter, lastSection]
AssembleStep(acc, result) ==
    IF IsSkipped(result) THEN acc
    ELSE LET newChapter == IsNewChapter(result, acc.lastChapter)
             afterChapter ==
                 IF newChapter
                 THEN [text |-> acc.text \o ChapterHeading(result.chapterTitle),
                       lastChapter |-> TrackedChapter(result),
                       lastSection |-> <<>>]
                 ELSE acc
             newSection == IsNewSection(result, afterChapter.lastSection)
             afterSection ==
                 IF newSection
                 THEN [afterChapter EXCEPT
                          !.text = @ \o SectionHeading(result.sectionTitle),
                          !.lastSection = result.sectionTitle]
                 ELSE afterChapter
         IN  [afterSection EXCEPT !.text = @ \o result.translation \o BlankLine]

RECURSIVE AssembleFrom(_, _, _)
AssembleFrom(res, n, acc) ==
    IF n > Len(res) THEN acc
    ELSE AssembleFrom(res, n + 1, AssembleStep(acc, res[n]))

\* the state of the assembly loop after all of results
Assemble(res) ==
    AssembleFrom(res, 1, [text |-> <<>>, lastChapter |-> <<>>, lastSection |-> <<>>])

----------------------------------------------------------------------------
(* createChunks                                                            *)

DefaultMaxChars == 10000

FallbackTitle == <<"U+05EA", "U+05D5", "U+05DB", "U+05DF", " ", "U+05DB", "U+05DC", "U+05DC", "U+05D9">>

EmptyChunk(title) == [title |-> title, text |-> <<>>, pages |-> <<>>]

\* a contentTitle that leaves the section out when a chapter is set
ContentTitleChapterOnly(currentChapter, currentSection) ==
    IF currentChapter # <<>> THEN currentChapter
    ELSE IF currentSection # <<>> THEN currentSection ELSE FallbackTitle

\* `const contentTitle = currentChapter ? (...) : (currentSection || ...)`
ContentTitle(currentChapter, currentSection) ==
    IF currentChapter # <<>>
    THEN IF currentSection # <<>>
         THEN currentChapter \o ArrowSeparator \o currentSection
         ELSE currentChapter
    ELSE IF currentSection # <<>> THEN currentSection ELSE FallbackTitle

\* the size test with `>=` in place of `>`
WouldExceedLimitOrReach(currentChunk, result, maxChars) ==
    Len(currentChunk.text) + Len(result.translation) >= maxChars

\* no size test at all
WouldExceedLimitNever(currentChunk, result, maxChars) == FALSE

\* `(currentChunk.text.length + result.translation.length) > maxChars`
WouldExceedLimit(currentChunk, result, maxChars) ==
    Len(currentChunk.text) + Len(result.translation) > maxChars

\* `currentChunk.title && currentChunk.title !== contentTitle`
TitleChanged(currentChunk, contentTitle) ==
    currentChunk.title # <<>> /\ currentChunk.title # contentTitle

\* the page added without the blank line after its translation
AppendToChunkUnseparated(chunk, result) ==
    [chunk EXCEPT !.text = @ \o result.translation,
                  !.pages = Append(@, result.pageNumber)]

\* `currentChunk.text += result.translation + '\n\n'` and the push of the
\* page number
AppendToChunk(chunk, result) ==
    [chunk EXCEPT !.text = @ \o result.translation \o BlankLine,
                  !.pages = Append(@, result.pageNumber)]

\* a section reset only when the chapter title is a new one
ResetsSectionOnNewChapter(result, currentChapter) ==
    result.chapterTitle # <<>> /\ result.chapterTitle # currentChapter

\* `if (result.chapterTitle)` guarding `currentSection = ''`
ResetsSection(result, currentChapter) == result.chapterTitle # <<>>

\* one iteration of `for (const result of results)` of createChunks;
\* acc = [chunks, currentChunk, currentChapter, currentSection]
ChunkStep(acc, result, maxChars) ==
    IF IsSkipped(result) THEN acc
    ELSE LET chapter == IF result.chapterTitle # <<>>
                        THEN result.chapterTitle ELSE acc.currentChapter
             sectionAfterChapter == IF ResetsSection(result, acc.currentChapter)
                                    THEN <<>> ELSE acc.currentSection
             section == IF result.sectionTitle # <<>>
                        THEN result.sectionTitle ELSE sectionAfterChapter
             contentTitle == ContentTitle(chapter, section)
             close == /\ \/ TitleChanged(acc.currentChunk, contentTitle)
                         \/ WouldExceedLimit(acc.currentChunk, result, maxChars)
                      /\ acc.currentChunk.text # <<>>
             closedChunks == IF close THEN Append(acc.chunks, acc.currentChunk)
                             ELSE acc.chunks
             opened == IF close THEN EmptyChunk(contentTitle) ELSE acc.currentChunk
             titled == IF opened.title = <<>>
                       THEN [opened EXCEPT !.title = contentTitle] ELSE opened
         IN  [chunks |-> closedChunks,
              currentChunk |-> AppendToChunk(titled, result),
              currentChapter |-> chapter,
              currentSection |-> section]

RECURSIVE ChunksFrom(_, _, _, _)
ChunksFrom(res, n, acc, maxChars) ==
    IF n > Len(res) THEN acc
    ELSE ChunksFrom(res, n + 1, ChunkStep(acc, res[n], maxChars), maxChars)

\* the chunk under construction is dropped at the end
PushLastChunkNever(acc) == acc.chunks

\* the chunk under construction is pushed even when it is empty
PushLastChunkAlways(acc) == Append(acc.chunks, acc.currentChunk)

\* `if (currentChunk.text) chunks.push(currentChunk)`
PushLastChunk(acc) ==
    IF acc.currentChunk.text # <<>> THEN Append(acc.chunks, acc.currentChunk)
    ELSE acc.chunks

createChunks(res, maxChars) ==
    PushLastChunk(
        ChunksFrom(res, 1,
                   [chunks |-> <<>>, currentChunk |-> EmptyChunk(<<>>),
                    currentChapter |-> <<>>, currentSection |-> <<>>],
                   maxChars))

----------------------------------------------------------------------------
(* summarizeChunk and the assembly of the structured summary               *)

SummaryErrorPrefix == <<"U+05E9", "U+05D2", "U+05D9", "U+05D0", "U+05D4", " ", "U+05D1", "U+05E1", "U+05D9", "U+05DB", "U+05D5", "U+05DD", " ">>

\* summarizeChunk whose catch returns the error line without the title
summarizeChunkUntitled(reply, chunk) ==
    [threw |-> FALSE,
     value |-> IF reply.kind = "throw" THEN SummaryErrorPrefix ELSE trim(reply.content)]

\* summarizeChunk without its try/catch
summarizeChunkUncaught(reply, chunk) ==
    [threw |-> reply.kind = "throw",
     value |-> IF reply.kind = "throw" THEN <<>> ELSE trim(reply.content)]

\* how summarizeChunk ends: it never throws; it returns the trimmed content, or
\* the error line of its catch block when the call throws
summarizeChunk(reply, chunk) ==
    [threw |-> FALSE,
     value |-> IF reply.kind = "throw" THEN SummaryErrorPrefix \o chunk.title
               ELSE trim(reply.content)]

\* the page range built from the first page alone
PageRangeFirstOnly(chunk) ==
    <<"(", "U+05E2", "U+05DE", "U+05D5", "U+05D3", "U+05D9", "U+05DD", " ">>
    \o NumToString(chunk.pages[1]) \o <<"-">>
    \o NumToString(chunk.pages[1]) \o <<")">>

\* `(עמודים first-last)`
PageRange(chunk) ==
    <<"(", "U+05E2", "U+05DE", "U+05D5", "U+05D3", "U+05D9", "U+05DD", " ">>
    \o NumToString(chunk.pages[1]) \o <<"-">>
    \o NumToString(chunk.pages[Len(chunk.pages)]) \o <<")">>

\* the five `structuredSummary +=` of one chunk
SummaryBlock(chunk, summary) ==
    repeat("=", RuleWidth) \o NewLine
    \o chunk.title \o NewLine
    \o PageRange(chunk) \o NewLine
    \o repeat("=", RuleWidth) \o BlankLine
    \o summary \o BlankLine

RECURSIVE SummaryFrom(_, _, _)
SummaryFrom(chunkList, summaries, n) ==
    IF n > Len(chunkList) THEN <<>>
    ELSE SummaryBlock(chunkList[n], summaries[n]) \o SummaryFrom(chunkList, summaries, n + 1)

CombineSummaries(chunkList, summaries) == SummaryFrom(chunkList, summaries, 1)

----------------------------------------------------------------------------
(* The environment: the renderer's page count and the model's replies      *)

MaxPages == 3

ShortText == <<"a", "b", "c", "d", "e", "f", "g", "h", "i", "j", "k", "l">>
LongText == <<"B", "E", "G", "I", "N", " ">> \o [n \in 1..200 |-> Digits[(n % 10) + 1]]
GoodSummary == <<"s", "y", "n", "o", "p", "s", "i", "s", " ", "o", "k">>
ArticleTitle == <<"t", "i", "t", "l", "e">>
Chapter1 == <<"C", "1">>
Chapter2 == <<"C", "2">>
Section1 == <<"S", "1">>

Reply(kind, translation, summary, chapterTitle, sectionTitle) ==
    [kind |-> kind, translation |-> translation, summary |-> summary,
     articleTitle |-> ArticleTitle,
     chapterTitle |-> chapterTitle, sectionTitle |-> sectionTitle]

\* what one attempt of processPage can meet: a throw before or in the call, a
\* content that is no JSON, a JSON object that fails validation, one that passes
FailingReplies ==
    { Reply("throw", <<>>, <<>>, <<>>, <<>>),
      Reply("text", <<>>, <<>>, <<>>, <<>>),
      Reply("json", <<"a", "b", "c">>, GoodSummary, Chapter1, <<>>),
      Reply("json", ShortText, <<"F", "a", "i", "l", "e", "d", " ", "t", "o", " ", "r", "e", "a", "d", " ", "t", "h", "e", " ", "p", "a", "g", "e">>, <<>>, <<>>) }

PassingReplies ==
    { Reply("json", ShortText, GoodSummary, Chapter1, <<>>),
      Reply("json", ShortText, GoodSummary, <<>>, Section1),
      Reply("json", ShortText, GoodSummary, Chapter1, Section1),
      Reply("json", LongText, GoodSummary, <<>>, <<>>) }

TranslationReplies == FailingReplies \cup PassingReplies

\* what the single call of summarizeChunk can meet
SummaryReplies ==
    { [kind |-> "throw", content |-> <<>>],
      [kind |-> "text", content |-> <<" ", "c", "h", "u", "n", "k", " ", "s", "u", "m", "m", "a", "r", "y", "\n">>] }

----------------------------------------------------------------------------
(* The two pipelines as one state machine                                  *)

\* the legacy processPage the sheets pipeline calls returns no titles
LegacyOKResult(pageNumber, reply, count) ==
    [OKResult(pageNumber, reply, count) EXCEPT !.chapterTitle = <<>>, !.sectionTitle = <<>>]

\* the row appendResultToSheet writes
SheetRow(result) ==
    <<result.pageNumber, result.translation, result.summary, result.articleTitle,
      result.status>>

Idle ==
    /\ imagePaths = <<>> /\ i = 0 /\ results = <<>>
    /\ previousContext = <<>> /\ chapterContext = <<>>
    /\ retryCount = 0 /\ attempts = 0 /\ retryDelays = 0
    /\ tempDir = FALSE /\ translationText = <<>> /\ chunks = <<>>
    /\ chunkSummaries = <<>> /\ structuredSummary = <<>> /\ written = {}
    /\ sheetRows = <<>> /\ exitCode = -1
    /\ inFlight = 0 /\ invoked = <<>> /\ pageDelays = <<>> /\ summaryErrors = {}
    /\ summaryCalls = <<>> /\ chunkDelays = <<>>

NoDirectCall ==
    /\ inTranslation = <<>> /\ inSummary = <<>> /\ inMaxChars = 0 /\ inKeys = {}
    /\ inRows = <<>> /\ combined = <<>>
    /\ verdict = "none"

\* loadEnvVariables: requiredVars
RequiredVars ==
    {"OPENAI_API_KEY", "GOOGLE_SHEET_ID", "GOOGLE_SERVICE_ACCOUNT_EMAIL", "GOOGLE_PRIVATE_KEY"}

\* loadEnvVariables without its check of the required variables
EnvLoadsAnyFile(cfg) == cfg.file

\* loadEnvVariables returns (it throws otherwise): a .env.local was found and
\* no required variable is missing
EnvLoads(cfg) == cfg.file /\ RequiredVars \subseteq cfg.vars

\* the .env.local files a run can start with
Configs ==
    { [file |-> FALSE, vars |-> {}],
      [file |-> TRUE, vars |-> {"OPENAI_API_KEY"}],
      [file |-> TRUE, vars |-> RequiredVars] }

\* the input path a run can start with: no argument, a path to no file, a file
Inputs ==
    { [given |-> FALSE, exists |-> FALSE],
      [given |-> TRUE, exists |-> FALSE],
      [given |-> TRUE, exists |-> TRUE] }

\* a configuration and an input with which the setup of main passes
ValidSetup ==
    /\ config = [file |-> TRUE, vars |-> RequiredVars]
    /\ input = [given |-> TRUE, exists |-> TRUE]

Init ==
    /\ pipeline \in {"translate", "sheets"}
    /\ pc = "loadEnv"
    /\ config \in Configs
    /\ input \in Inputs
    /\ Idle
    /\ NoDirectCall

pageVars == <<previousContext, chapterContext, retryCount, attempts, retryDelays>>
outputVars == <<translationText, chunks, chunkSummaries, structuredSummary, written>>
directVars == <<inTranslation, inSummary, inMaxChars, inKeys, inRows, combined, verdict>>
setupVars == <<config, input>>
traceVars == <<inFlight, invoked, pageDelays, summaryErrors, summaryCalls, chunkDelays>>

\* step 1 of main: loadEnvVariables returns, or throws into the catch of main
LoadEnv ==
    /\ pc = "loadEnv"
    /\ IF EnvLoads(config)
       THEN pc' = "getPath" /\ UNCHANGED exitCode
       ELSE pc' = "fatal" /\ exitCode' = 1
    /\ UNCHANGED <<pipeline, imagePaths, i, results, pageVars, tempDir, outputVars,
                   sheetRows, directVars, setupVars, traceVars>>

\* step 2 of main: the translate pipeline needs the argument, the sheets
\* pipeline falls back on input.pdf; both need the file; else process.exit(1)
GetPath ==
    /\ pc = "getPath"
    /\ IF (pipeline = "translate" /\ ~ input.given) \/ ~ input.exists
       THEN pc' = "exit" /\ exitCode' = 1
       ELSE /\ pc' = IF pipeline = "sheets" THEN "initSheet" ELSE "render"
            /\ UNCHANGED exitCode
    /\ UNCHANGED <<pipeline, imagePaths, i, results, pageVars, tempDir, outputVars,
                   sheetRows, directVars, setupVars, traceVars>>

\* sheets pipeline, step 4: initializeSheet returns, or throws into the catch
\* of main
InitSheet ==
    /\ pc = "initSheet"
    /\ \/ pc' = "render" /\ UNCHANGED exitCode
       \/ pc' = "fatal" /\ exitCode' = 1
    /\ UNCHANGED <<pipeline, imagePaths, i, results, pageVars, tempDir, outputVars,
                   sheetRows, directVars, setupVars, traceVars>>

\* splitPdfToImagesJS returns the page images
Render ==
    /\ pc = "render"
    /\ \E n \in 1..MaxPages : imagePaths' = [m \in 1..n |-> m]
    /\ tempDir' = TRUE
    /\ pc' = "page"
    /\ UNCHANGED <<pipeline, i, results, pageVars, outputVars, sheetRows, exitCode, directVars, setupVars, traceVars>>

\* splitPdfToImagesJS throws, before or after fs.ensureDir: the catch of main
RenderFails ==
    /\ pc = "render"
    /\ tempDir' \in BOOLEAN
    /\ pc' = "fatal"
    /\ exitCode' = 1
    /\ UNCHANGED <<pipeline, imagePaths, i, results, pageVars, outputVars, sheetRows, directVars, setupVars, traceVars>>

\* the test with the last page included
MorePagesOrLast(index, count) == index < count

\* `if (i < imagePaths.length - 1)` guarding `await delay(1000)`
MorePages(index, count) == index < count - 1

\* the loop test with the last page left out
PagesRemainButLast(index, count) == index < count - 1

\* `i < imagePaths.length` of the page loop
PagesRemain(index, count) == index < count

\* the loop's `i++` and its test
NextPage ==
    /\ i' = i + 1
    /\ pc' = IF PagesRemain(i + 1, Len(imagePaths)) THEN "page" ELSE "cleanup"

\* the rest of the loop body once a result has been pushed and saved, and the
\* loop's `i++` and test when no delay is awaited
AfterPage ==
    IF MorePages(i, Len(imagePaths))
    THEN pc' = "pageDelay" /\ i' = i
    ELSE NextPage

\* processPage returns `result` to main, which pushes it
ReturnToMain(result) ==
    /\ results' = Append(results, result)
    /\ IF pipeline = "sheets"
       THEN pc' = "sheetAppend" /\ i' = i
       ELSE AfterPage

\* the loop body up to the first await inside processPage
StartPage ==
    /\ pc = "page"
    /\ LET context == IF pipeline = "sheets"
                      THEN PrepareContextSheets(results, i)
                      ELSE PrepareContext(results, i)
       IN  /\ previousContext' = context.previousContext
           /\ chapterContext' = context.chapterContext
    /\ retryCount' = 0
    /\ attempts' = 0
    /\ retryDelays' = 0
    /\ IF LoopContinues(0, maxRetries)
       THEN pc' = "attempt" /\ UNCHANGED <<results, i>>
       ELSE ReturnToMain(ExhaustedResult(i + 1, maxRetries))
    /\ invoked' = Append(invoked, i + 1)
    /\ UNCHANGED <<pipeline, imagePaths, tempDir, outputVars, sheetRows, exitCode,
                   directVars, setupVars, inFlight, pageDelays, summaryErrors,
                   summaryCalls, chunkDelays>>

\* after a failed attempt and its delay: the `while` test
NextIteration(count) ==
    IF LoopContinues(count, maxRetries)
    THEN pc' = "attempt" /\ UNCHANGED <<results, i>>
    ELSE ReturnToMain(ExhaustedResult(i + 1, maxRetries))

\* a call dispatched without `await`: main goes on at once
AfterDispatchNoAwait(awaiting, proceeding) == proceeding

\* where main stands after dispatching a model call: `await` suspends it
\* until the call settles
AfterDispatch(awaiting, proceeding) == awaiting

\* the try block of the retry loop up to `await client.chat.completions.create`
CallModel ==
    /\ pc = "attempt"
    /\ inFlight' = inFlight + 1
    /\ pc' = AfterDispatch("awaitReply", "attempt")
    /\ UNCHANGED <<pipeline, imagePaths, i, results, pageVars, tempDir, outputVars,
                   sheetRows, exitCode, directVars, setupVars, invoked, pageDelays,
                   summaryErrors, summaryCalls, chunkDelays>>

\* the call settles: the rest of the try block of the retry loop, and its catch
Attempt ==
    /\ pc = "awaitReply"
    /\ inFlight' = inFlight - 1
    /\ attempts' = attempts + 1
    /\ \E reply \in TranslationReplies :
          IF AttemptSucceeds(reply)
          THEN /\ retryCount' = retryCount
               /\ ReturnToMain(IF pipeline = "sheets"
                               THEN LegacyOKResult(i + 1, reply, retryCount)
                               ELSE OKResult(i + 1, reply, retryCount))
          ELSE /\ retryCount' = retryCount + 1
               /\ IF DelayBeforeRetry(retryCount + 1, maxRetries)
                  THEN pc' = "retryDelay" /\ UNCHANGED <<results, i>>
                  ELSE NextIteration(retryCount + 1)
    /\ UNCHANGED <<pipeline, imagePaths, previousContext, chapterContext, retryDelays,
                   tempDir, outputVars, sheetRows, exitCode, directVars, setupVars,
                   invoked, pageDelays, summaryErrors, summaryCalls, chunkDelays>>

\* `await delay(3000)` returns
RetryDelay ==
    /\ pc = "retryDelay"
    /\ retryDelays' = retryDelays + 1
    /\ NextIteration(retryCount)
    /\ UNCHANGED <<pipeline, imagePaths, previousContext, chapterContext, retryCount,
                   attempts, tempDir, outputVars, sheetRows, exitCode, directVars, setupVars, traceVars>>

\* sheets pipeline: appendResultToSheet(result) returns, appendResultToCSV follows
SheetAppend ==
    /\ pc = "sheetAppend"
    /\ sheetRows' = Append(sheetRows, SheetRow(results[Len(results)]))
    /\ AfterPage
    /\ UNCHANGED <<pipeline, imagePaths, results, pageVars, tempDir, outputVars, exitCode, directVars, setupVars, traceVars>>

\* sheets pipeline: appendResultToSheet(result) throws; the per-page catch builds
\* errorResult and pushes it
SheetAppendThrows ==
    /\ pc = "sheetAppend"
    /\ results' = Append(results, CriticalResult(i + 1))
    /\ pc' = "saveError"
    /\ UNCHANGED <<pipeline, imagePaths, i, pageVars, tempDir, outputVars, sheetRows, exitCode, directVars, setupVars, traceVars>>

\* sheets pipeline: the inner try of the catch saves errorResult, or its own
\* catch logs the failure
SaveErrorResult ==
    /\ pc = "saveError"
    /\ \/ sheetRows' = Append(sheetRows, SheetRow(results[Len(results)]))
       \/ sheetRows' = sheetRows
    /\ AfterPage
    /\ UNCHANGED <<pipeline, imagePaths, results, pageVars, tempDir, outputVars, exitCode, directVars, setupVars, traceVars>>

\* `await delay(1000)` between pages returns; `i++`
PageDelay ==
    /\ pc = "pageDelay"
    /\ NextPage
    /\ pageDelays' = Append(pageDelays, i + 1)
    /\ UNCHANGED <<pipeline, imagePaths, results, pageVars, tempDir, outputVars, sheetRows,
                   exitCode, directVars, setupVars, inFlight, invoked, summaryErrors,
                   summaryCalls, chunkDelays>>

\* cleanupTempFiles
Cleanup ==
    /\ pc = "cleanup"
    /\ tempDir' = FALSE
    /\ pc' = IF pipeline = "sheets" THEN "combine" ELSE "saveTranslation"
    /\ UNCHANGED <<pipeline, imagePaths, i, results, pageVars, outputVars, sheetRows, exitCode, directVars, setupVars, traceVars>>

\* translate pipeline: the assembly loop and the write of translation_*.txt
SaveTranslation ==
    /\ pc = "saveTranslation"
    /\ translationText' = Assemble(results).text
    /\ written' = written \cup {"translation"}
    /\ pc' = "createChunks"
    /\ UNCHANGED <<pipeline, imagePaths, i, results, pageVars, tempDir, chunks,
                   chunkSummaries, structuredSummary, sheetRows, exitCode, directVars, setupVars, traceVars>>

\* translate pipeline: `createChunks(results, 10000)` and the loop test
CreateChunks ==
    /\ pc = "createChunks"
    /\ chunks' = createChunks(results, DefaultMaxChars)
    /\ pc' = IF Len(chunks') > 0 THEN "summarize" ELSE "saveSummary"
    /\ UNCHANGED <<pipeline, imagePaths, i, results, pageVars, tempDir, translationText,
                   chunkSummaries, structuredSummary, written, sheetRows, exitCode, directVars, setupVars, traceVars>>

\* a delay after every chunk, the last one included
MoreChunksOrLast(index, count) == index < count

\* `if (i < chunks.length - 1)` guarding the delay between chunks
MoreChunks(index, count) == index < count - 1

\* translate pipeline: summarizeChunk is called for the next chunk and awaits
\* its model call
CallSummary ==
    /\ pc = "summarize"
    /\ inFlight' = inFlight + 1
    /\ pc' = AfterDispatch("awaitSummary", "summarize")
    /\ summaryCalls' = Append(summaryCalls, Len(chunkSummaries) + 1)
    /\ UNCHANGED <<pipeline, imagePaths, i, results, pageVars, tempDir, outputVars,
                   sheetRows, exitCode, directVars, setupVars, invoked, pageDelays,
                   summaryErrors, chunkDelays>>

\* translate pipeline: the call settles and summarizeChunk ends; an exception
\* would reach the catch of main
SummarizeChunk ==
    /\ pc = "awaitSummary"
    /\ inFlight' = inFlight - 1
    /\ \E reply \in SummaryReplies :
          LET outcome == summarizeChunk(reply, chunks[Len(chunkSummaries) + 1])
          IN  /\ summaryErrors' = IF reply.kind = "throw"
                                  THEN summaryErrors \cup {Len(chunkSummaries) + 1}
                                  ELSE summaryErrors
              /\ IF outcome.threw
                 THEN /\ pc' = "fatal"
                      /\ exitCode' = 1
                      /\ UNCHANGED chunkSummaries
                 ELSE /\ chunkSummaries' = Append(chunkSummaries, outcome.value)
                      /\ pc' = IF MoreChunks(Len(chunkSummaries), Len(chunks))
                               THEN "chunkDelay" ELSE "saveSummary"
                      /\ UNCHANGED exitCode
    /\ UNCHANGED <<pipeline, imagePaths, i, results, pageVars, tempDir, translationText,
                   chunks, structuredSummary, written, sheetRows, directVars, setupVars,
                   invoked, pageDelays, summaryCalls, chunkDelays>>

\* translate pipeline: `await delay(1000)` between chunks returns
ChunkDelay ==
    /\ pc = "chunkDelay"
    /\ pc' = "summarize"
    /\ chunkDelays' = Append(chunkDelays, Len(chunkSummaries))
    /\ UNCHANGED <<pipeline, imagePaths, i, results, pageVars, tempDir, outputVars,
                   sheetRows, exitCode, directVars, setupVars, inFlight, invoked,
                   pageDelays, summaryErrors, summaryCalls>>

\* translate pipeline: the combination loop and the write of summary_*.txt
SaveSummary ==
    /\ pc = "saveSummary"
    /\ structuredSummary' = CombineSummaries(chunks, chunkSummaries)
    /\ written' = written \cup {"summary"}
    /\ pc' = "done"
    /\ exitCode' = 0
    /\ UNCHANGED <<pipeline, imagePaths, i, results, pageVars, tempDir, translationText,
                   chunks, chunkSummaries, sheetRows, directVars, setupVars, traceVars>>

\* sheets pipeline: step 8, whose failures its own catch logs
CombinedDocument ==
    /\ pc = "combine"
    /\ pc' = "done"
    /\ exitCode' = 0
    /\ UNCHANGED <<pipeline, imagePaths, i, results, pageVars, tempDir, outputVars,
                   sheetRows, directVars, setupVars, traceVars>>

Next ==
    \/ LoadEnv
    \/ GetPath
    \/ InitSheet
    \/ Render
    \/ RenderFails
    \/ StartPage
    \/ CallModel
    \/ Attempt
    \/ RetryDelay
    \/ SheetAppend
    \/ SheetAppendThrows
    \/ SaveErrorResult
    \/ PageDelay
    \/ Cleanup
    \/ SaveTranslation
    \/ CreateChunks
    \/ CallSummary
    \/ SummarizeChunk
    \/ ChunkDelay
    \/ SaveSummary
    \/ CombinedDocument

Spec == Init /\ [][Next]_vars

\* the translate pipeline alone
InitTranslate ==
    /\ pipeline = "translate"
    /\ pc = "loadEnv"
    /\ config \in Configs
    /\ input \in Inputs
    /\ Idle
    /\ NoDirectCall

NextTranslate ==
    \/ LoadEnv
    \/ GetPath
    \/ Render
    \/ RenderFails
    \/ StartPage
    \/ CallModel
    \/ Attempt
    \/ RetryDelay
    \/ PageDelay
    \/ Cleanup
    \/ SaveTranslation
    \/ CreateChunks
    \/ CallSummary
    \/ SummarizeChunk
    \/ ChunkDelay
    \/ SaveSummary

\* every await of main and of processPage eventually returns or throws
FairTranslate == InitTranslate /\ [][NextTranslate]_vars /\ WF_vars(NextTranslate)

----------------------------------------------------------------------------
(* Claims about the page loop                                              *)

AfterLoop == {"cleanup", "saveTranslation", "createChunks", "summarize", "chunkDelay",
              "saveSummary", "combine", "done"}

PageNumbersInOrder ==
    /\ Len(results) = Len(imagePaths)
    /\ \A k \in 1..Len(results) : results[k].pageNumber = k

\* C1: once the page loop has finished for a document of N pages, results has
\* exactly N entries and entry k has pageNumber k, in both pipelines.
C1_ResultsAreOneToN == pc \in AfterLoop => PageNumbersInOrder

\* C1, translate pipeline alone: the property holds there.
C1_TranslatePipeline ==
    (pipeline = "translate" /\ pc \in AfterLoop) => PageNumbersInOrder

\* the results stored for the page with this number
ResultsOfPage(number) == {k \in 1..Len(results) : results[k].pageNumber = number}

\* the last min(count, length) characters of a text, by position
LastChars(text, count) ==
    [n \in 1..Min(count, Len(text)) |-> text[Len(text) - Min(count, Len(text)) + n]]

\* C2: the previousContext passed to processPage for the page at index i is
\* non-empty iff the preceding page (number i) exists and is OK, and then it is
\* the last min(200, length) characters of that page's translation.
C2_PreviousContext ==
    pc = "attempt" =>
        LET okPredecessors == {k \in ResultsOfPage(i) : results[k].status = "OK"}
        IN  /\ previousContext # <<>> <=> okPredecessors # {}
            /\ okPredecessors # {} =>
                  \E k \in okPredecessors :
                      previousContext = LastChars(results[k].translation, 200)

\* C2, translate pipeline alone: the property holds there.
C2_TranslatePipeline == pipeline = "translate" => C2_PreviousContext

\* the claimed scan: the first result from index j down to 0 that has a chapter
\* title gives the context; section-only results are passed over
RECURSIVE NearestChapter(_, _)
NearestChapter(res, j) ==
    IF j < 0 THEN <<>>
    ELSE IF res[j + 1].chapterTitle # <<>>
         THEN IF res[j + 1].sectionTitle # <<>>
              THEN res[j + 1].chapterTitle \o <<" ", ">", " ">> \o res[j + 1].sectionTitle
              ELSE res[j + 1].chapterTitle
         ELSE NearestChapter(res, j - 1)

\* C3: the chapterContext passed for the page at index i is the nearest earlier
\* chapter title, with that result's section title if any, and empty if no
\* earlier result has a chapter title.
C3_ChapterContextIsNearestChapter ==
    (pipeline = "translate" /\ pc = "attempt") =>
        chapterContext = NearestChapter(results, i - 1)

\* processPage has returned and its result is the last entry of results
JustReturned ==
    \/ pipeline = "translate" /\ pc \in {"pageDelay", "cleanup"}
    \/ pipeline = "sheets" /\ pc = "sheetAppend"

\* C4: when every attempt for a page fails, processPage makes exactly
\* maxRetries + 1 attempts, with one delay(3000) between consecutive attempts
\* (as many delays as attempts made before each attempt, none after the last),
\* and returns status FAILED.
C4_ExhaustionTakesAllAttempts ==
    /\ pc = "attempt" => retryDelays = attempts
    /\ pc = "retryDelay" => retryDelays = attempts - 1
    /\ (JustReturned /\ retryCount = attempts) =>
          /\ attempts = maxRetries + 1
          /\ retryDelays = maxRetries
          /\ results[Len(results)].status = "FAILED"

C4_Witness ==
    /\ JustReturned
    /\ retryCount = attempts
    /\ attempts = 4
    /\ retryDelays = 3
    /\ results[Len(results)].status = "FAILED"
    /\ results[Len(results)].pageNumber = 2

\* every page of the document has a result
AllPagesProcessed ==
    \A n \in 1..Len(imagePaths) : ResultsOfPage(n) # {}

\* C6: a run of the translate pipeline that got past rendering terminates with
\* every page processed and both output files written, whatever the model
\* calls return or throw.
C6_RunCompletes ==
    (pipeline = "translate" /\ pc = "page") ~>
        (pc = "done" /\ AllPagesProcessed /\ written = {"translation", "summary"})

C6_Witness ==
    /\ pipeline = "translate"
    /\ pc = "done"
    /\ written = {"translation", "summary"}
    /\ Len(imagePaths) = 3
    /\ \E k \in 1..Len(results) : results[k].status = "FAILED"
    /\ \E k \in 1..Len(chunkSummaries) :
          chunkSummaries[k] = SummaryErrorPrefix \o chunks[k].title

----------------------------------------------------------------------------
(* Validation of one parsed reply, over texts built from a few pieces      *)

MaxPieces == 2

Pieces ==
    { <<"a", "b", "c", "d", "e", "f", "g", "h", "i">>,
      <<"a", "b", "c", "d", "e", "f", "g", "h", "i", "j">>,
      <<" ", " ", " ", " ", " ">>,
      <<"E", "R", "R", "O", "R">>,
      <<"U", "n", "a", "b", "l", "e", " ", "T", "o">>,
      <<"I", " ", "C", "a", "n", "n", "o", "t", " ", "t", "r", "a", "n", "s", "l", "a", "t", "e">>,
      <<"U+05DC", "U+05D0", " ", "U+05E0", "U+05D9", "U+05EA", "U+05DF", " ", "U+05DC", "U+05EA", "U+05E8", "U+05D2", "U+05DD">> }

RECURSIVE TextsOf(_)
TextsOf(n) ==
    IF n = 0 THEN {<<>>}
    ELSE TextsOf(n - 1) \cup {t \o piece : t \in TextsOf(n - 1), piece \in Pieces}

FieldTexts == TextsOf(MaxPieces)

\* the fields of parsedResponse as processPage declares it
ResponseFields == {"translation", "summary", "articleTitle", "chapterTitle", "sectionTitle"}

\* the keys the parsed object can have: the declared ones, one of them absent,
\* or one more
KeySets ==
    { ResponseFields,
      ResponseFields \ {"articleTitle"},
      ResponseFields \ {"summary"},
      ResponseFields \cup {"notes"} }

\* `parsedResponse.translation`: the value of a key, or undefined (falsy like
\* the empty string) when the object has no such key
PropertyOf(keys, name, value) == IF name \in keys THEN value ELSE <<>>

InitValidation ==
    /\ pipeline = "none"
    /\ pc = "parsed"
    /\ ValidSetup
    /\ Idle
    /\ inTranslation \in FieldTexts
    /\ inSummary \in FieldTexts
    /\ inMaxChars = 0 /\ inKeys = {} /\ inRows = <<>> /\ combined = <<>>
    /\ verdict = "none"

\* processPage, from the parsed reply to the return or the throw of the validation
ValidateReply ==
    /\ pc = "parsed"
    /\ \E keys \in KeySets :
          /\ inKeys' = keys
          /\ verdict' = IF AttemptSucceeds(Reply("json",
                                                PropertyOf(keys, "translation", inTranslation),
                                                PropertyOf(keys, "summary", inSummary),
                                                <<>>, <<>>))
                        THEN "accepted" ELSE "rejected"
    /\ pc' = "validated"
    /\ UNCHANGED <<pipeline, imagePaths, i, results, pageVars, tempDir, outputVars,
                   sheetRows, exitCode, inTranslation, inSummary, inMaxChars,
                   inRows, combined,
                   setupVars, traceVars>>

SpecValidation == InitValidation /\ [][ValidateReply]_vars

\* a marker occurs in a text at some offset, letter case ignored
OccursIgnoringCase(text, marker) ==
    \E offset \in 0..(Len(text) - Len(marker)) :
        \A n \in 1..Len(marker) : LowerChar(text[offset + n]) = LowerChar(marker[n])

\* a field is invalid if it is empty, shorter than 10 characters, or contains a
\* failure marker
FieldInvalid(text) ==
    \/ text = <<>>
    \/ Len(text) < 10
    \/ \E n \in 1..Len(failureIndicators) : OccursIgnoringCase(text, failureIndicators[n])

\* C5: an attempt is accepted only if neither the translation nor the summary
\* is invalid; one invalid field fails the attempt whatever the other field is.
C5_AcceptedOnlyIfBothValid ==
    verdict = "accepted" => ~ FieldInvalid(inTranslation) /\ ~ FieldInvalid(inSummary)

C5_Witness ==
    /\ verdict = "rejected"
    /\ ~ FieldInvalid(inTranslation)
    /\ Len(inSummary) >= 10
    /\ OccursIgnoringCase(inSummary, <<"e", "r", "r", "o", "r">>)
    /\ ~ includes(inSummary, <<"e", "r", "r", "o", "r">>)

----------------------------------------------------------------------------
(* Assembly and chunking of a list of page results, as main runs them on   *)
(* the results of the page loop                                            *)

MaxDocPages == 3

TenChars == <<"a", "b", "c", "d", "e", "f", "g", "h", "i", "j">>

\* a translation longer than two of the limits tried
TwentySixChars == [n \in 1..26 |-> "z"]

\* the results processPage can have returned for the page with this number
PageResults(number) ==
    {ExhaustedResult(number, maxRetries)}
    \cup {OKResult(number, Reply("json", translation, GoodSummary, chapter, section), 0) :
            translation \in {TenChars, ShortText},
            chapter \in {<<>>, Chapter1, Chapter2},
            section \in {<<>>, Section1}}
    \cup {OKResult(number, Reply("json", TwentySixChars, GoodSummary, <<>>, <<>>), 0)}

RECURSIVE ResultLists(_)
ResultLists(n) ==
    IF n = 0 THEN {<<>>}
    ELSE ResultLists(n - 1)
         \cup {Append(res, result) : res \in {l \in ResultLists(n - 1) : Len(l) = n - 1},
                                     result \in PageResults(n)}

\* limits around the lengths of one and of two translations, and the default
MaxCharsChoices == {11, 12, 24, DefaultMaxChars}

InitDocument ==
    /\ pipeline = "none"
    /\ pc = "saveTranslation"
    /\ imagePaths = <<>> /\ i = 0
    /\ results \in ResultLists(MaxDocPages)
    /\ previousContext = <<>> /\ chapterContext = <<>>
    /\ retryCount = 0 /\ attempts = 0 /\ retryDelays = 0
    /\ tempDir = FALSE /\ translationText = <<>> /\ chunks = <<>>
    /\ chunkSummaries = <<>> /\ structuredSummary = <<>> /\ written = {}
    /\ sheetRows = <<>> /\ exitCode = -1
    /\ inFlight = 0 /\ invoked = <<>> /\ pageDelays = <<>> /\ summaryErrors = {}
    /\ summaryCalls = <<>> /\ chunkDelays = <<>>
    /\ ValidSetup
    /\ NoDirectCall

\* the assembly loop of main over the given results
AssembleDocument ==
    /\ pipeline = "none"
    /\ pc = "saveTranslation"
    /\ translationText' = Assemble(results).text
    /\ pc' = "createChunks"
    /\ UNCHANGED <<pipeline, imagePaths, i, results, pageVars, tempDir, chunks,
                   chunkSummaries, structuredSummary, written, sheetRows, exitCode,
                   directVars, setupVars, traceVars>>

\* createChunks(results, maxChars) for a limit the caller chooses
ChunkDocument ==
    /\ pipeline = "none"
    /\ pc = "createChunks"
    /\ \E maxChars \in MaxCharsChoices :
          /\ inMaxChars' = maxChars
          /\ chunks' = createChunks(results, maxChars)
    /\ pc' = "chunked"
    /\ UNCHANGED <<pipeline, imagePaths, i, results, pageVars, tempDir, translationText,
                   chunkSummaries, structuredSummary, written, sheetRows, exitCode,
                   inTranslation, inSummary, inKeys, inRows, combined, verdict,
                   setupVars, traceVars>>

SpecDocument == InitDocument /\ [][AssembleDocument \/ ChunkDocument]_vars

\* the lines of a text, split at its line feeds
RECURSIVE LinesFrom(_, _)
LinesFrom(text, start) ==
    IF start > Len(text) + 1 THEN <<>>
    ELSE LET end == CHOOSE n \in start..(Len(text) + 1) :
                        /\ n = Len(text) + 1 \/ text[n] = "\n"
                        /\ \A m \in start..(n - 1) : text[m] # "\n"
         IN  <<SubSeq(text, start, end - 1)>> \o LinesFrom(text, end + 1)

Rule == repeat("=", RuleWidth)

IsSectionLine(line) ==
    /\ Len(line) >= 8
    /\ SubSeq(line, 1, 4) = <<"-", "-", "-", " ">>
    /\ SubSeq(line, Len(line) - 3, Len(line)) = <<" ", "-", "-", "-">>

\* what the line at position j of a document is: a rule, the title of a chapter
\* heading block (between two rules), a section heading, a blank or a body line
KindOfLine(lines, j) ==
    IF lines[j] = <<>> THEN "blank"
    ELSE IF lines[j] = Rule THEN "rule"
    ELSE IF j > 1 /\ j < Len(lines) /\ lines[j - 1] = Rule /\ lines[j + 1] = Rule
         THEN "chapter"
    ELSE IF IsSectionLine(lines[j]) THEN "section"
    ELSE "body"

TitleOfLine(lines, j) ==
    IF KindOfLine(lines, j) = "section" THEN SubSeq(lines[j], 5, Len(lines[j]) - 4)
    ELSE lines[j]

\* the chapter headings, section headings and body lines of a document, in order
ItemsOf(text) ==
    LET lines == LinesFrom(text, 1)
        items == [j \in 1..Len(lines) |->
                     [kind |-> KindOfLine(lines, j), text |-> TitleOfLine(lines, j)]]
    IN  SelectSeq(items, LAMBDA item : item.kind \in {"chapter", "section", "body"})

HeadingsOf(text) == SelectSeq(ItemsOf(text), LAMBDA item : item.kind # "body")

BodiesOf(text) ==
    LET bodies == SelectSeq(ItemsOf(text), LAMBDA item : item.kind = "body")
    IN  [n \in 1..Len(bodies) |-> bodies[n].text]

IsOK(res, k) == res[k].status = "OK"

\* the chapter last emitted before page k: the chapter title of the nearest
\* earlier OK page that has one
LastEmittedChapter(res, k) ==
    LET titled == {j \in 1..(k - 1) : IsOK(res, j) /\ res[j].chapterTitle # <<>>}
    IN  IF titled = {} THEN <<>>
        ELSE res[CHOOSE j \in titled : \A m \in titled : m <= j].chapterTitle

ChapterEmittedAt(res, k) ==
    /\ IsOK(res, k)
    /\ res[k].chapterTitle # <<>>
    /\ res[k].chapterTitle # LastEmittedChapter(res, k)

\* the section tracked when page k's section is looked at: that of the nearest
\* earlier OK page with a section, unless a chapter heading was emitted since
TrackedSection(res, k) ==
    LET bearers == {j \in 1..(k - 1) :
                       /\ IsOK(res, j) /\ res[j].sectionTitle # <<>>
                       /\ \A m \in (j + 1)..k : ~ ChapterEmittedAt(res, m)}
    IN  IF bearers = {} THEN <<>>
        ELSE res[CHOOSE j \in bearers : \A m \in bearers : m <= j].sectionTitle

SectionEmittedAt(res, k) ==
    /\ IsOK(res, k)
    /\ res[k].sectionTitle # <<>>
    /\ res[k].sectionTitle # TrackedSection(res, k)

RECURSIVE HeadingsUpTo(_, _)
HeadingsUpTo(res, k) ==
    IF k = 0 THEN <<>>
    ELSE HeadingsUpTo(res, k - 1)
         \o (IF ChapterEmittedAt(res, k)
             THEN <<[kind |-> "chapter", text |-> res[k].chapterTitle]>> ELSE <<>>)
         \o (IF SectionEmittedAt(res, k)
             THEN <<[kind |-> "section", text |-> res[k].sectionTitle]>> ELSE <<>>)

Assembled == pc \in {"createChunks", "chunked"}

\* C7: the assembled translation has a chapter heading block for an OK page
\* exactly when its chapterTitle is non-empty and differs from the last emitted
\* chapter, and a chapter change resets the tracked section, so that the
\* headings of the document are those these rules give, in page order.
C7_ChapterHeadings ==
    Assembled => HeadingsOf(trim(translationText)) = HeadingsUpTo(results, Len(results))

C7_Witness ==
    /\ Assembled
    /\ Len(results) = 3
    /\ \A k \in 1..3 : IsOK(results, k) /\ results[k].sectionTitle = Section1
    /\ results[1].chapterTitle = Chapter1
    /\ results[2].chapterTitle = Chapter1
    /\ results[3].chapterTitle = Chapter2
    /\ HeadingsOf(trim(translationText))
          = << [kind |-> "chapter", text |-> Chapter1],
               [kind |-> "section", text |-> Section1],
               [kind |-> "chapter", text |-> Chapter2],
               [kind |-> "section", text |-> Section1] >>

\* the OK results of a list, in the order of the list
OKResults(res) == SelectSeq(res, LAMBDA result : result.status = "OK")

OKTranslations(res) == [n \in 1..Len(OKResults(res)) |-> OKResults(res)[n].translation]

OKPageNumbers(res) == [n \in 1..Len(OKResults(res)) |-> OKResults(res)[n].pageNumber]

Ascending(numbers) ==
    \A m, n \in 1..Len(numbers) : m < n => numbers[m] < numbers[n]

FailedResults(res) == {k \in 1..Len(res) : res[k].status = "FAILED"}

\* C8: FAILED pages stay in results, and downstream of the page loop the
\* assembled translation holds the translations of exactly the OK pages in
\* ascending page order, holds no FAILED page's placeholder text, and no chunk
\* lists the number of a FAILED page.
C8_FailedPagesContributeNothing ==
    (pipeline = "translate"
     /\ pc \in {"createChunks", "summarize", "chunkDelay", "saveSummary", "done"}) =>
        /\ AllPagesProcessed
        /\ BodiesOf(trim(translationText)) = OKTranslations(results)
        /\ Ascending(OKPageNumbers(results))
        /\ \A k \in FailedResults(results) :
              ~ includes(translationText, results[k].translation)
        /\ \A n \in 1..Len(chunks) : \A m \in 1..Len(chunks[n].pages) :
              \A k \in FailedResults(results) :
                  results[k].pageNumber # chunks[n].pages[m]

C8_Witness ==
    /\ pipeline = "translate"
    /\ pc = "summarize"
    /\ Len(results) = 3
    /\ results[1].status = "OK"
    /\ results[2].status = "FAILED"
    /\ results[3].status = "OK"
    /\ BodiesOf(trim(translationText)) = <<results[1].translation, results[3].translation>>
    /\ Len(chunks) = 1
    /\ chunks[1].pages = <<1, 3>>

RECURSIVE PagesOfChunks(_, _)
PagesOfChunks(chunkList, n) ==
    IF n = 0 THEN <<>>
    ELSE PagesOfChunks(chunkList, n - 1) \o chunkList[n].pages

\* C9: for every results list and every maxChars, the pages lists of the chunks
\* of createChunks, concatenated in chunk order, are the page numbers of the OK
\* results in order, none omitted and none twice.
C9_ChunksCoverOKPages ==
    pc = "chunked" => PagesOfChunks(chunks, Len(chunks)) = OKPageNumbers(results)

C9_Witness ==
    /\ pc = "chunked"
    /\ inMaxChars = 12
    /\ Len(results) = 3
    /\ results[1].status = "OK"
    /\ results[2].status = "FAILED"
    /\ results[3].status = "OK"
    /\ results[1].chapterTitle = results[3].chapterTitle
    /\ results[3].sectionTitle = <<>>
    /\ Len(chunks) = 2
    /\ chunks[1].pages = <<1>>
    /\ chunks[2].pages = <<3>>

\* the translation of the page with this number
TranslationOfPage(res, number) ==
    res[CHOOSE k \in 1..Len(res) : res[k].pageNumber = number].translation

\* C10: every chunk of createChunks has a text of at most maxChars characters,
\* unless it holds exactly one page whose translation alone exceeds maxChars.
C10_ChunkTextWithinLimit ==
    pc = "chunked" =>
        \A n \in 1..Len(chunks) :
            \/ Len(chunks[n].text) <= inMaxChars
            \/ /\ Len(chunks[n].pages) = 1
               /\ Len(TranslationOfPage(results, chunks[n].pages[1])) > inMaxChars

\* the index in res of the page with this number
IndexOfPage(res, number) == CHOOSE k \in 1..Len(res) : res[k].pageNumber = number

\* the chapter in force at the OK page at index k: the chapter title of the
\* nearest OK page up to k that has one
ChapterInForce(res, k) ==
    LET titled == {j \in 1..k : IsOK(res, j) /\ res[j].chapterTitle # <<>>}
    IN  IF titled = {} THEN <<>>
        ELSE res[CHOOSE j \in titled : \A m \in titled : m <= j].chapterTitle

\* the section in force at the OK page at index k: the section title of the
\* nearest OK page up to k that has one, unless a later page up to k names a
\* chapter
SectionInForce(res, k) ==
    LET bearers == {j \in 1..k :
                       /\ IsOK(res, j) /\ res[j].sectionTitle # <<>>
                       /\ \A m \in (j + 1)..k :
                             ~ (IsOK(res, m) /\ res[m].chapterTitle # <<>>)}
    IN  IF bearers = {} THEN <<>>
        ELSE res[CHOOSE j \in bearers : \A m \in bearers : m <= j].sectionTitle

\* the title under which the content of the OK page at index k is filed
TitleInForce(res, k) ==
    IF ChapterInForce(res, k) # <<>>
    THEN IF SectionInForce(res, k) # <<>>
         THEN ChapterInForce(res, k) \o <<" ", ">", " ">> \o SectionInForce(res, k)
         ELSE ChapterInForce(res, k)
    ELSE IF SectionInForce(res, k) # <<>> THEN SectionInForce(res, k)
         ELSE FallbackTitle

\* the pages of a chunk are consecutive entries of the OK page sequence
ContiguousRun(pages, okPages) ==
    \E offset \in 0..(Len(okPages) - Len(pages)) :
        \A m \in 1..Len(pages) : pages[m] = okPages[offset + m]

\* C11: every chunk's pages list is non-empty, strictly ascending and a
\* contiguous run of the OK page sequence, and two consecutive chunks are
\* separated only where the next page's title differs from the open chunk's
\* title or where adding its translation would exceed maxChars.
C11_ChunkBoundaries ==
    pc = "chunked" =>
        /\ \A n \in 1..Len(chunks) :
              /\ chunks[n].pages # <<>>
              /\ Ascending(chunks[n].pages)
              /\ ContiguousRun(chunks[n].pages, OKPageNumbers(results))
        /\ \A n \in 1..(Len(chunks) - 1) :
              LET next == IndexOfPage(results, chunks[n + 1].pages[1])
              IN  \/ TitleInForce(results, next) # chunks[n].title
                  \/ Len(chunks[n].text) + Len(results[next].translation) > inMaxChars

C11_Witness ==
    /\ pc = "chunked"
    /\ inMaxChars = 24
    /\ Len(results) = 3
    /\ \A k \in 1..3 : IsOK(results, k) /\ results[k].translation = TenChars
    /\ Len(chunks) = 2
    /\ chunks[1].pages = <<1, 2>>
    /\ chunks[2].pages = <<3>>
    /\ chunks[1].title = chunks[2].title
    /\ Len(chunks[1].text) = 24

----------------------------------------------------------------------------
(* Claims about summarization, setup, clean-up and pacing                  *)

\* the fixed error line for a chunk title
ErrorLineFor(title) == <<"U+05E9", "U+05D2", "U+05D9", "U+05D0", "U+05D4", " ", "U+05D1", "U+05E1", "U+05D9", "U+05DB", "U+05D5", "U+05DD", " ">> \o title

\* C12: if the summarization call for chunk k throws, chunk k's summary is the
\* fixed Hebrew error line with that chunk's title, the run does not take the
\* fatal exit, and at the end every chunk, the later ones included, has its
\* summary.
C12_SummaryFailureIsContained ==
    pipeline = "translate" =>
        /\ \A k \in summaryErrors :
              /\ k <= Len(chunkSummaries)
              /\ chunkSummaries[k] = ErrorLineFor(chunks[k].title)
        /\ summaryErrors # {} => pc # "fatal"
        /\ pc = "done" => Len(chunkSummaries) = Len(chunks)

C12_Witness ==
    /\ pipeline = "translate"
    /\ pc = "done"
    /\ Len(chunks) = 2
    /\ summaryErrors = {1}
    /\ chunkSummaries[1] = ErrorLineFor(chunks[1].title)
    /\ chunkSummaries[2] = <<"c", "h", "u", "n", "k", " ", "s", "u", "m", "m", "a", "r", "y">>

\* C13: on every exit path of a run that has started rendering pages, normal
\* completion and the fatal exit alike, the temporary page-image directory
\* has been removed when the process ends.
C13_TempDirRemovedOnExit == exitCode # -1 => ~ tempDir

\* the translate pipeline cannot run with this setup: no path argument, no such
\* file, or no .env.local with the required variables
SetupInvalid ==
    \/ ~ input.given
    \/ ~ input.exists
    \/ ~ config.file
    \/ ~ (RequiredVars \subseteq config.vars)

\* nothing has been rendered, no model call made, no output written
NothingStarted ==
    /\ imagePaths = <<>> /\ ~ tempDir
    /\ inFlight = 0 /\ invoked = <<>> /\ attempts = 0
    /\ written = {} /\ sheetRows = <<>>

\* C14: if the input path argument is missing, the file does not exist or
\* required configuration is missing, the run exits with a non-zero code
\* before rendering, before any model call and before any output is written:
\* it stays in the setup steps, each of which can be taken, until it exits
\* with code 1.
C14_InvalidSetupExitsEarly ==
    (pipeline = "translate" /\ SetupInvalid) =>
        /\ NothingStarted
        /\ \/ pc \in {"fatal", "exit"} /\ exitCode = 1
           \/ pc \in {"loadEnv", "getPath"} /\ exitCode = -1 /\ ENABLED (LoadEnv \/ GetPath)

C14_Witness ==
    /\ pipeline = "translate"
    /\ pc = "exit"
    /\ exitCode = 1
    /\ EnvLoads(config)
    /\ ~ input.given
    /\ NothingStarted

\* C15: with a .env.local that defines only OPENAI_API_KEY (and a valid input
\* path), the translate pipeline passes environment loading: it does not take
\* the fatal exit, whose only cause before rendering is a failed loading.
C15_OnlyApiKeyRequired ==
    (/\ pipeline = "translate"
     /\ config = [file |-> TRUE, vars |-> {"OPENAI_API_KEY"}]
     /\ input = [given |-> TRUE, exists |-> TRUE]) =>
        ~ (pc = "fatal" /\ imagePaths = <<>> /\ ~ tempDir)

\* C16: in the sheets pipeline a failure of a per-page sink call leaves the
\* pipeline state alone: whatever the sink calls did, results holds at most one
\* entry for a page, exactly one once the page has been handled.
C16_SinkFailureLeavesResults ==
    pipeline = "sheets" =>
        /\ \A n \in 1..Len(imagePaths) : Cardinality(ResultsOfPage(n)) <= 1
        /\ pc \in {"pageDelay", "cleanup"} =>
              Cardinality(ResultsOfPage(i + 1)) = 1 \/ Cardinality(ResultsOfPage(i)) = 1

\* C17: at most one model call, page translation attempt or chunk
\* summarization, is in flight at any moment, and one is in flight only while
\* the run waits for it.
C17_OneCallInFlight ==
    /\ inFlight \in {0, 1}
    /\ inFlight = 1 <=> pc \in {"awaitReply", "awaitSummary"}

C17_Witness ==
    /\ pc = "awaitSummary"
    /\ inFlight = 1
    /\ Len(chunkSummaries) = 1
    /\ Len(chunks) = 2
    /\ Len(invoked) = 3

\* the page numbers 1..n in order
FirstPages(n) == [k \in 1..n |-> k]

RangeLine(pages) ==
    <<"(", "U+05E2", "U+05DE", "U+05D5", "U+05D3", "U+05D9", "U+05DD", " ">>
    \o NumToString(pages[1]) \o <<"-">> \o NumToString(pages[Len(pages)]) \o <<")">>

\* the seven lines of the block of chunk k
BlockLines(k) ==
    <<Rule, chunks[k].title, RangeLine(chunks[k].pages), Rule, <<>>, chunkSummaries[k], <<>>>>

RECURSIVE BlockLinesFrom(_)
BlockLinesFrom(k) ==
    IF k > Len(chunks) THEN <<>> ELSE BlockLines(k) \o BlockLinesFrom(k + 1)

\* C19: the assembled summary is one block per chunk, in chunk order; each
\* block has the chunk's title, the page range made of the first and the last
\* entry of that chunk's pages, and the summary produced for that chunk; a
\* chunk whose summarization failed has its block too, with the Hebrew error
\* line in place of the summary.
C19_SummaryBlocksFollowChunks ==
    pipeline = "translate" /\ pc = "done" =>
        LET lines == LinesFrom(structuredSummary, 1)
        IN  /\ lines = BlockLinesFrom(1) \o << <<>> >>
            /\ \A k \in summaryErrors :
                  /\ k <= Len(chunks)
                  /\ lines[7 * (k - 1) + 2] = chunks[k].title
                  /\ lines[7 * (k - 1) + 6] = ErrorLineFor(chunks[k].title)

C19_Witness ==
    /\ pipeline = "translate" /\ pc = "done"
    /\ Len(chunks) = 2
    /\ chunks[1].pages = <<1, 2>> /\ chunks[2].pages = <<3>>
    /\ summaryErrors = {2}
    /\ LinesFrom(structuredSummary, 1)[3] = RangeLine(<<1, 2>>)
    /\ LinesFrom(structuredSummary, 1)[13] = ErrorLineFor(chunks[2].title)

\* processPage is running for page i + 1, or main is between its return and
\* the next iteration
InsidePage ==
    pc \in {"attempt", "awaitReply", "retryDelay", "sheetAppend", "saveError", "pageDelay"}

\* C20: a page whose retries are exhausted gets a result with status FAILED and
\* empty chapterTitle and sectionTitle, and the outcome is final: processPage is
\* invoked exactly once per page, in page order, so a FAILED page is never
\* attempted again.
C20_ExhaustedPageIsFinal ==
    /\ (JustReturned /\ retryCount = attempts) =>
          LET result == results[Len(results)]
          IN  /\ result.status = "FAILED"
              /\ result.chapterTitle = <<>>
              /\ result.sectionTitle = <<>>
              /\ result.pageNumber = invoked[Len(invoked)]
    /\ invoked = FirstPages(Len(invoked))
    /\ pc = "page" => Len(invoked) = i
    /\ InsidePage => Len(invoked) = i + 1
    /\ pc \in AfterLoop => invoked = FirstPages(Len(imagePaths))
    /\ \A k \in 1..Len(results) :
          results[k].status = "FAILED" =>
              Cardinality({n \in 1..Len(invoked) : invoked[n] = results[k].pageNumber}) = 1

C20_Witness ==
    /\ pipeline = "translate" /\ pc = "done"
    /\ Len(imagePaths) = 3
    /\ invoked = <<1, 2, 3>>
    /\ Len(results) = 3
    /\ results[1].status = "FAILED" /\ results[1].retryCount = maxRetries + 1
    /\ results[1].chapterTitle = <<>> /\ results[1].sectionTitle = <<>>
    /\ results[2].status = "OK" /\ results[3].status = "OK"

\* C21: the chapterContext for page i does not depend on the status of page
\* i-1: when page i-1 is FAILED and an earlier result has a chapter title, the
\* chapterContext passed for page i is still that nearest chapter (with its
\* section), while previousContext is empty.
C21_ChapterContextIgnoresStatus ==
    ( /\ pipeline = "translate" /\ pc = "attempt"
      /\ i > 0 /\ results[i].status = "FAILED"
      /\ \E k \in 1..i : results[k].chapterTitle # <<>> ) =>
        /\ previousContext = <<>>
        /\ chapterContext # <<>>
        /\ chapterContext = NearestChapter(results, i - 1)

\* an Attempt step: the awaited model call settles
AttemptStep == pc = "awaitReply" /\ attempts' = attempts + 1

\* the step appended a result to results
Returned == Len(results') = Len(results) + 1

\* C22: processPage stops at the first attempt that parses and validates: it
\* returns status OK with that attempt's fields and issues no further model
\* call; a 3-second delay occurs exactly once after each failed attempt that is
\* followed by another attempt, never after a success and never after the final
\* failed attempt.
C22_StopsAtFirstSuccess ==
    /\ [](pc \in {"attempt", "awaitReply"} => retryDelays = attempts)
    /\ [](pc = "retryDelay" => retryDelays = attempts - 1)
    /\ []((JustReturned /\ results[Len(results)].status = "OK") =>
              /\ retryDelays = attempts - 1
              /\ retryCount = attempts - 1)
    /\ []((JustReturned /\ results[Len(results)].status = "FAILED") =>
              retryDelays = attempts - 1)
    /\ [][ /\ AttemptStep =>
                 \/ /\ Returned
                    /\ results'[Len(results')].status = "OK"
                    /\ \E reply \in TranslationReplies :
                          /\ isValidTranslation(reply.translation, reply.summary)
                          /\ results'[Len(results')].translation = reply.translation
                          /\ results'[Len(results')].summary = reply.summary
                          /\ results'[Len(results')].articleTitle = reply.articleTitle
                    /\ pc' \notin {"attempt", "awaitReply", "retryDelay"}
                    /\ retryDelays' = retryDelays
                 \/ /\ Returned
                    /\ results'[Len(results')].status = "FAILED"
                    /\ attempts' = maxRetries + 1
                    /\ pc' \notin {"attempt", "awaitReply", "retryDelay"}
                    /\ retryDelays' = retryDelays
                 \/ /\ ~ Returned
                    /\ attempts' <= maxRetries
                    /\ pc' = "retryDelay"
           /\ pc = "retryDelay" => (retryDelays' = retryDelays + 1 /\ pc' = "attempt")
           /\ retryDelays' # retryDelays => (pc = "retryDelay" \/ pc = "page")
         ]_vars

C22_Witness ==
    /\ JustReturned
    /\ results[Len(results)].status = "OK"
    /\ results[Len(results)].retryCount = 2
    /\ attempts = 3
    /\ retryDelays = 2

\* C23: for every result returned by processPage, retryCount is the number of
\* attempts made beyond the first: k when the page succeeds on attempt k + 1,
\* and maxRetries when all maxRetries + 1 attempts failed.
C23_RetryCountIsExtraAttempts ==
    JustReturned =>
        /\ results[Len(results)].retryCount = attempts - 1
        /\ results[Len(results)].status = "FAILED" =>
              results[Len(results)].retryCount = maxRetries

\* what the claimed rules put in the document for pages 1..k: per OK page, its
\* chapter heading if one is due, its section heading if one is due, and its
\* translation
RECURSIVE ItemsUpTo(_, _)
ItemsUpTo(res, k) ==
    IF k = 0 THEN <<>>
    ELSE ItemsUpTo(res, k - 1)
         \o (IF ChapterEmittedAt(res, k)
             THEN <<[kind |-> "chapter", text |-> res[k].chapterTitle]>> ELSE <<>>)
         \o (IF SectionEmittedAt(res, k)
             THEN <<[kind |-> "section", text |-> res[k].sectionTitle]>> ELSE <<>>)
         \o (IF IsOK(res, k)
             THEN <<[kind |-> "body", text |-> res[k].translation]>> ELSE <<>>)

\* three OK pages: a chapter on page 1, the same section on pages 2 and 3
ChapterThenTwoSectionPages(res) ==
    /\ Len(res) = 3
    /\ \A k \in 1..3 : IsOK(res, k)
    /\ res[1].chapterTitle # <<>> /\ res[1].sectionTitle = <<>>
    /\ res[2].chapterTitle = <<>> /\ res[3].chapterTitle = <<>>
    /\ res[2].sectionTitle # <<>> /\ res[3].sectionTitle = res[2].sectionTitle

\* C24: in the assembled translation a section heading is emitted for an OK
\* page exactly when its sectionTitle is non-empty and differs from the tracked
\* last section, whether or not a chapter heading was emitted for that page;
\* for three OK pages (chapter on page 1, section S on pages 2 and 3) the
\* document has exactly one chapter heading, one section heading and the three
\* translations in order.
C24_SectionHeadings ==
    Assembled =>
        /\ ItemsOf(trim(translationText)) = ItemsUpTo(results, Len(results))
        /\ ChapterThenTwoSectionPages(results) =>
              ItemsOf(trim(translationText))
                  = << [kind |-> "chapter", text |-> results[1].chapterTitle],
                       [kind |-> "body", text |-> results[1].translation],
                       [kind |-> "section", text |-> results[2].sectionTitle],
                       [kind |-> "body", text |-> results[2].translation],
                       [kind |-> "body", text |-> results[3].translation] >>

C24_Witness ==
    /\ Assembled
    /\ ChapterThenTwoSectionPages(results)
    /\ Len(SelectSeq(ItemsOf(trim(translationText)), LAMBDA item : item.kind = "section")) = 1
    /\ Len(SelectSeq(ItemsOf(trim(translationText)), LAMBDA item : item.kind = "chapter")) = 1
    /\ BodiesOf(trim(translationText)) = OKTranslations(results)

\* C25: every page placed in a chunk has a contentTitle equal to the chunk's
\* title, the contentTitle being 'chapter > section' when both carried-forward
\* values are set, the chapter alone or the section alone when only one is,
\* and the fixed fallback label otherwise.
C25_ChunkTitleIsContentTitle ==
    pc = "chunked" =>
        \A n \in 1..Len(chunks) :
            \A m \in 1..Len(chunks[n].pages) :
                chunks[n].title
                    = TitleInForce(results, IndexOfPage(results, chunks[n].pages[m]))

C25_Witness ==
    /\ pc = "chunked"
    /\ Len(results) = 3
    /\ Len(chunks) = 2
    /\ chunks[1].pages = <<1>> /\ chunks[2].pages = <<2, 3>>
    /\ chunks[1].title = <<"U+05EA", "U+05D5", "U+05DB", "U+05DF", " ", "U+05DB", "U+05DC", "U+05DC", "U+05D9">>
    /\ results[2].chapterTitle # <<>> /\ results[2].sectionTitle # <<>>
    /\ results[3].chapterTitle = <<>> /\ results[3].sectionTitle = <<>>
    /\ chunks[2].title
          = results[2].chapterTitle \o <<" ", ">", " ">> \o results[2].sectionTitle

\* the chunks that list the page with this number
ChunksOfPage(number) ==
    {n \in 1..Len(chunks) : \E m \in 1..Len(chunks[n].pages) : chunks[n].pages[m] = number}

\* C26: an OK page whose translation alone is longer than maxChars ends up
\* alone in its chunk: an open chunk is closed before it, the page is not
\* split, and the next OK page starts a new chunk.
C26_OversizePageIsAlone ==
    pc = "chunked" =>
        \A k \in 1..Len(results) :
            (IsOK(results, k) /\ Len(results[k].translation) > inMaxChars) =>
                /\ Cardinality(ChunksOfPage(results[k].pageNumber)) = 1
                /\ \A n \in ChunksOfPage(results[k].pageNumber) :
                      /\ chunks[n].pages = <<results[k].pageNumber>>
                      /\ chunks[n].text = results[k].translation \o <<"\n", "\n">>

C26_Witness ==
    /\ pc = "chunked"
    /\ inMaxChars = 24
    /\ Len(results) = 3
    /\ \A k \in 1..3 : IsOK(results, k) /\ results[k].chapterTitle = <<>>
                       /\ results[k].sectionTitle = <<>>
    /\ Len(results[1].translation) = 10
    /\ Len(results[2].translation) > 24
    /\ Len(results[3].translation) = 10
    /\ Len(chunks) = 3
    /\ chunks[2].pages = <<2>>

\* the nearest OK page before index k (0 when there is none)
PreviousOK(res, k) ==
    LET earlier == {p \in 1..(k - 1) : IsOK(res, p)}
    IN  IF earlier = {} THEN 0 ELSE CHOOSE p \in earlier : \A q \in earlier : q <= p

\* the OK page at index k repeats the chapter in force, has no section of its
\* own, and follows content filed under that chapter and a section
RepeatsChapter(res, k) ==
    /\ IsOK(res, k)
    /\ res[k].chapterTitle # <<>>
    /\ res[k].sectionTitle = <<>>
    /\ PreviousOK(res, k) # 0
    /\ ChapterInForce(res, k - 1) = res[k].chapterTitle
    /\ SectionInForce(res, k - 1) # <<>>

RECURSIVE JoinedTranslations(_, _, _)
JoinedTranslations(res, pages, m) ==
    IF m > Len(pages) THEN <<>>
    ELSE res[IndexOfPage(res, pages[m])].translation
         \o (IF m < Len(pages) THEN <<"\n", "\n">> ELSE <<>>)
         \o JoinedTranslations(res, pages, m + 1)

\* the translations of the pages with these numbers, each followed by a blank
\* line
RECURSIVE TerminatedTranslations(_, _, _)
TerminatedTranslations(res, pages, m) ==
    IF m > Len(pages) THEN <<>>
    ELSE res[IndexOfPage(res, pages[m])].translation \o <<"\n", "\n">>
         \o TerminatedTranslations(res, pages, m + 1)

\* C28 as stated: each chunk's text is the concatenation of its member pages'
\* translations, in page order, separated by a blank line.
C28_ChunkTextIsJoinedTranslations ==
    pc = "chunked" =>
        \A n \in 1..Len(chunks) :
            chunks[n].text = JoinedTranslations(results, chunks[n].pages, 1)

\* C28, amended: each chunk's text is the concatenation, in page order, of its
\* member pages' translations, each one followed by a blank line, the last one
\* included.
C28_ChunkTextIsTerminatedTranslations ==
    pc = "chunked" =>
        \A n \in 1..Len(chunks) :
            /\ Ascending(chunks[n].pages)
            /\ chunks[n].text = TerminatedTranslations(results, chunks[n].pages, 1)
            /\ chunks[n].text
                  = JoinedTranslations(results, chunks[n].pages, 1) \o <<"\n", "\n">>

C28_Witness ==
    /\ pc = "chunked"
    /\ Len(chunks) = 1
    /\ chunks[1].pages = <<1, 3>>
    /\ results[2].status = "FAILED"
    /\ results[1].translation # results[3].translation
    /\ chunks[1].text
          = results[1].translation \o <<"\n", "\n">> \o results[3].translation \o <<"\n", "\n">>

\* C29: for n chunks exactly n summarization calls are made, one per chunk in
\* chunk order and none repeated; the k-th stored summary is the outcome of the
\* call for chunk k; exactly n - 1 one-second delays occur, one after each
\* chunk but the last.
C29_OneCallPerChunk ==
    /\ [](pipeline = "translate" =>
            /\ summaryCalls = FirstPages(Len(summaryCalls))
            /\ chunkDelays = FirstPages(Len(chunkDelays))
            /\ Len(summaryCalls) <= Len(chunks)
            /\ pc = "summarize" =>
                  /\ Len(summaryCalls) = Len(chunkSummaries)
                  /\ Len(chunkDelays) = Len(chunkSummaries)
                  /\ Len(chunkSummaries) < Len(chunks)
            /\ pc = "awaitSummary" =>
                  /\ Len(summaryCalls) = Len(chunkSummaries) + 1
                  /\ Len(chunkDelays) = Len(chunkSummaries)
            /\ pc = "chunkDelay" =>
                  /\ Len(summaryCalls) = Len(chunkSummaries)
                  /\ Len(chunkDelays) = Len(chunkSummaries) - 1
                  /\ Len(chunkSummaries) < Len(chunks)
            /\ pc \in {"saveSummary", "done"} =>
                  /\ Len(summaryCalls) = Len(chunks)
                  /\ Len(chunkSummaries) = Len(chunks)
                  /\ Len(chunks) > 0 => chunkDelays = FirstPages(Len(chunks) - 1)
                  /\ Len(chunks) = 0 => chunkDelays = <<>>)
    /\ [][ pc = "awaitSummary" =>
              /\ Len(chunkSummaries') = summaryCalls[Len(summaryCalls)]
              /\ SubSeq(chunkSummaries', 1, Len(chunkSummaries)) = chunkSummaries
              /\ LET k == Len(chunkSummaries')
                 IN  \/ chunkSummaries'[k] = ErrorLineFor(chunks[k].title)
                     \/ \E reply \in SummaryReplies :
                           reply.kind = "text" /\ chunkSummaries'[k] = trim(reply.content)
         ]_vars

C29_Witness ==
    /\ pipeline = "translate" /\ pc = "done"
    /\ Len(chunks) = 3
    /\ summaryCalls = <<1, 2, 3>>
    /\ chunkDelays = <<1, 2>>
    /\ summaryErrors = {2}
    /\ chunkSummaries[2] = ErrorLineFor(chunks[2].title)

\* main is inside the page loop
InPageLoop == pc = "page" \/ InsidePage

\* C30: in every run the stages follow one another without overlap: all N
\* pages translated, temporary files cleaned, translation file written, chunks
\* built, every chunk summarized, summary file written; the request for page
\* k + 1 is never built before the result of page k is appended, and no
\* summarization call is issued before the last page result is appended.
C30_StagesInOrder ==
    /\ [](pipeline = "translate" =>
            /\ InPageLoop =>
                  /\ tempDir /\ written = {} /\ chunks = <<>> /\ summaryCalls = <<>>
                  /\ Len(results) < Len(imagePaths)
            /\ pc = "cleanup" =>
                  /\ tempDir /\ written = {} /\ chunks = <<>> /\ summaryCalls = <<>>
                  /\ Len(results) = Len(imagePaths) /\ inFlight = 0
            /\ "translation" \in written => ~ tempDir /\ Len(results) = Len(imagePaths)
            /\ pc = "createChunks" =>
                  written = {"translation"} /\ chunks = <<>> /\ summaryCalls = <<>>
            /\ summaryCalls # <<>> =>
                  /\ written \in {{"translation"}, {"translation", "summary"}}
                  /\ Len(results) = Len(imagePaths)
                  /\ chunks = createChunks(results, DefaultMaxChars)
            /\ "summary" \in written =>
                  /\ "translation" \in written
                  /\ Len(chunkSummaries) = Len(chunks)
                  /\ Len(summaryCalls) = Len(chunks)
                  /\ inFlight = 0)
    /\ [][ pipeline = "translate" =>
              /\ invoked' # invoked =>
                    /\ Len(results) = Len(invoked)
                    /\ invoked' = Append(invoked, Len(results) + 1)
              /\ results' # results =>
                    /\ InPageLoop /\ written = {} /\ tempDir
                    /\ Len(results') = Len(invoked)
                    /\ results'[Len(results')].pageNumber = invoked[Len(invoked)]
              /\ (tempDir /\ ~ tempDir') =>
                    pc = "cleanup" /\ Len(results) = Len(imagePaths)
              /\ written' # written =>
                    \/ /\ written = {} /\ written' = {"translation"}
                       /\ ~ tempDir /\ chunks = <<>>
                    \/ /\ written = {"translation"} /\ written' = {"translation", "summary"}
                       /\ Len(chunkSummaries) = Len(chunks)
              /\ chunks' # chunks => written = {"translation"} /\ summaryCalls = <<>>
              /\ summaryCalls' # summaryCalls =>
                    /\ Len(results) = Len(imagePaths)
                    /\ written = {"translation"}
         ]_vars

C30_Witness ==
    /\ pipeline = "translate" /\ pc = "done"
    /\ Len(imagePaths) = 3 /\ invoked = <<1, 2, 3>> /\ Len(results) = 3
    /\ ~ tempDir
    /\ written = {"translation", "summary"}
    /\ Len(chunks) = 2 /\ summaryCalls = <<1, 2>> /\ Len(chunkSummaries) = 2

----------------------------------------------------------------------------
(* Claims about the accepted reply, validation markers and result status   *)

\* C31: a model response is accepted only if it is a JSON object with exactly
\* the fields translation, summary, articleTitle, chapterTitle, sectionTitle; a
\* response missing one of them or carrying another field is a failed attempt.
C31_AcceptedOnlyWithExactFields ==
    verdict = "accepted" =>
        inKeys = {"translation", "summary", "articleTitle", "chapterTitle", "sectionTitle"}

\* C32: an attempt whose translation or summary contains the refusal phrase
\* 'cannot' ('I cannot', 'cannot translate'), letter case ignored, fails
\* validation and is retried.
C32_CannotFailsValidation ==
    verdict = "accepted" =>
        /\ ~ OccursIgnoringCase(inTranslation, <<"c", "a", "n", "n", "o", "t">>)
        /\ ~ OccursIgnoringCase(inSummary, <<"c", "a", "n", "n", "o", "t">>)

----------------------------------------------------------------------------
(* combineTranslations, over rows as getAllTranslations returns them       *)

\* `rows.sort((a, b) => pageA - pageB)`: insertion of a row after the rows
\* whose page number is not greater (Array.prototype.sort is stable)
RECURSIVE InsertRow(_, _)
InsertRow(sorted, row) ==
    IF sorted = <<>> THEN <<row>>
    ELSE IF sorted[Len(sorted)][1] <= row[1] THEN Append(sorted, row)
    ELSE Append(InsertRow(SubSeq(sorted, 1, Len(sorted) - 1), row), sorted[Len(sorted)])

RECURSIVE SortFrom(_, _, _)
SortFrom(rows, n, sorted) ==
    IF n > Len(rows) THEN sorted
    ELSE SortFrom(rows, n + 1, InsertRow(sorted, rows[n]))

SortByPage(rows) == SortFrom(rows, 1, <<>>)

\* the length of the run of line feeds that starts at position n
RECURSIVE BreaksAt(_, _)
BreaksAt(text, n) ==
    IF n > Len(text) \/ text[n] # "\n" THEN 0 ELSE 1 + BreaksAt(text, n + 1)

\* `.replace(/\n{3,}/g, '\n\n')`
RECURSIVE ReplaceLongBreaks(_, _)
ReplaceLongBreaks(text, n) ==
    IF n > Len(text) THEN <<>>
    ELSE IF BreaksAt(text, n) >= 3
         THEN <<"\n", "\n">> \o ReplaceLongBreaks(text, n + BreaksAt(text, n))
         ELSE <<text[n]>> \o ReplaceLongBreaks(text, n + 1)

\* cleanedText
CleanedText(translation) == ReplaceLongBreaks(trim(translation), 1)

\* a row is kept whatever its status
IsCombinedAnyStatus(row) == row[2] # <<>> /\ Len(trim(row[2])) > 0

\* `status === 'OK' && translation && translation.trim().length > 0`
IsCombined(row) == row[5] = "OK" /\ row[2] # <<>> /\ Len(trim(row[2])) > 0

\* `translations.join('\n\n')`
RECURSIVE JoinFrom(_, _)
JoinFrom(texts, n) ==
    IF n > Len(texts) THEN <<>>
    ELSE texts[n] \o (IF n < Len(texts) THEN <<"\n", "\n">> ELSE <<>>) \o JoinFrom(texts, n + 1)

combineTranslations(rows) ==
    LET kept == SelectSeq(SortByPage(rows), IsCombined)
    IN  JoinFrom([n \in 1..Len(kept) |-> CleanedText(kept[n][2])], 1)

MaxRows == 3

PlainCell == <<"a", "b">>
PaddedCell == <<" ", "c", "\n", "\n", "\n", "\n", "d", "\n">>
BlankCell == <<" ", " ">>

\* the rows of the sheet: page number, translation, summary, title, status
RowChoices ==
    { <<page, translation, GoodSummary, ArticleTitle, status>> :
        page \in 1..MaxRows,
        translation \in {PlainCell, PaddedCell, BlankCell},
        status \in {"OK", "FAILED"} }

RECURSIVE RowLists(_)
RowLists(n) ==
    IF n = 0 THEN {<<>>}
    ELSE RowLists(n - 1)
         \cup {Append(rows, row) : rows \in {l \in RowLists(n - 1) : Len(l) = n - 1},
                                   row \in RowChoices}

InitCombine ==
    /\ pipeline = "none"
    /\ pc = "combine"
    /\ ValidSetup
    /\ Idle
    /\ inTranslation = <<>> /\ inSummary = <<>> /\ inMaxChars = 0 /\ inKeys = {}
    /\ inRows \in RowLists(MaxRows)
    /\ combined = <<>>
    /\ verdict = "none"

\* combineTranslations(sheetRows) as step 8 of the sheets pipeline calls it
CombineRows ==
    /\ pipeline = "none"
    /\ pc = "combine"
    /\ combined' = combineTranslations(inRows)
    /\ pc' = "combined"
    /\ UNCHANGED <<pipeline, imagePaths, i, results, pageVars, tempDir, outputVars,
                   sheetRows, exitCode, inTranslation, inSummary, inMaxChars, inKeys,
                   inRows, verdict, setupVars, traceVars>>

SpecCombine == InitCombine /\ [][CombineRows]_vars

\* the positions of the rows that are OK with a non-blank translation, by
\* ascending page number, rows of one page in the order of the sheet
RECURSIVE KeptInOrder(_, _)
KeptInOrder(rows, taken) ==
    LET left == {n \in 1..Len(rows) :
                    /\ n \notin taken
                    /\ rows[n][5] = "OK"
                    /\ \E m \in 1..Len(rows[n][2]) : rows[n][2][m] \notin WhiteSpace}
    IN  IF left = {} THEN <<>>
        ELSE LET next == CHOOSE n \in left :
                             \A m \in left :
                                 \/ rows[n][1] < rows[m][1]
                                 \/ rows[n][1] = rows[m][1] /\ n <= m
             IN  <<next>> \o KeptInOrder(rows, taken \cup {next})

\* a text with every run of three or more line feeds cut down to two
RECURSIVE WithoutLongBreaks(_)
WithoutLongBreaks(text) ==
    IF text = <<>> THEN <<>>
    ELSE IF Len(text) >= 3 /\ text[1] = "\n" /\ text[2] = "\n" /\ text[3] = "\n"
         THEN WithoutLongBreaks(SubSeq(text, 2, Len(text)))
         ELSE <<text[1]>> \o WithoutLongBreaks(SubSeq(text, 2, Len(text)))

RECURSIVE BlankLineJoined(_, _)
BlankLineJoined(texts, n) ==
    IF n > Len(texts) THEN <<>>
    ELSE IF n = Len(texts) THEN texts[n]
    ELSE texts[n] \o <<"\n", "\n">> \o BlankLineJoined(texts, n + 1)

\* C34 as stated: combineTranslations returns the translations of exactly the
\* rows whose status is OK and whose translation is non-blank, in ascending
\* page-number order, joined by blank lines.
C34_CombinedIsKeptTranslations ==
    pc = "combined" =>
        LET kept == KeptInOrder(inRows, {})
        IN  combined = BlankLineJoined([n \in 1..Len(kept) |-> inRows[kept[n]][2]], 1)

\* C34, amended: combineTranslations returns, for exactly the rows whose status
\* is OK and whose translation is non-blank, in ascending page-number order,
\* the translation trimmed and with every run of three or more line feeds cut
\* down to two, these texts joined by blank lines; other rows contribute
\* nothing.
C34_CombinedIsCleanedTranslations ==
    pc = "combined" =>
        LET kept == KeptInOrder(inRows, {})
        IN  combined
              = BlankLineJoined(
                    [n \in 1..Len(kept) |-> WithoutLongBreaks(trim(inRows[kept[n]][2]))], 1)

C34_Witness ==
    /\ pc = "combined"
    /\ Len(inRows) = 3
    /\ inRows[1][1] = 3 /\ inRows[1][5] = "OK" /\ inRows[1][2] = <<"a", "b">>
    /\ inRows[2][1] = 2 /\ inRows[2][5] = "FAILED"
    /\ inRows[3][1] = 1 /\ inRows[3][5] = "OK"
    /\ inRows[3][2] = <<" ", "c", "\n", "\n", "\n", "\n", "d", "\n">>
    /\ combined = <<"c", "\n", "\n", "d", "\n", "\n", "a", "b">>

FieldPasses(text) ==
    /\ Len(trim(text)) >= 10
    /\ \A n \in 1..Len(failureIndicators) : ~ OccursIgnoringCase(text, failureIndicators[n])

\* C36: every result with status OK has a translation and a summary that both
\* pass validation, so an OK predecessor always yields a non-empty
\* previousContext, and every OK page adds non-empty text to the assembled
\* translation and to its chunk.
C36_OKResultsAreValid ==
    /\ []((pc = "attempt" /\ i > 0 /\ i <= Len(results) /\ results[i].status = "OK") =>
            /\ previousContext # <<>>
            /\ previousContext = LastChars(results[i].translation, 200))
    /\ [][ results' # results =>
              LET result == results'[Len(results')]
              IN  result.status = "OK" =>
                      /\ FieldPasses(result.translation)
                      /\ FieldPasses(result.summary)
         ]_vars
    /\ [][ (pipeline = "translate" /\ written' # written /\ written = {}) =>
              \A k \in 1..Len(results) :
                  results[k].status = "OK" =>
                      /\ results[k].translation # <<>>
                      /\ includes(translationText', results[k].translation \o <<"\n", "\n">>)
         ]_vars
    /\ [][ (pipeline = "translate" /\ pc = "createChunks") =>
              \A k \in 1..Len(results) :
                  results[k].status = "OK" =>
                      \E n \in 1..Len(chunks') :
                          /\ \E m \in 1..Len(chunks'[n].pages) :
                                chunks'[n].pages[m] = results[k].pageNumber
                          /\ includes(chunks'[n].text, results[k].translation \o <<"\n", "\n">>)
         ]_vars

C36_Witness ==
    /\ pipeline = "translate" /\ pc = "done"
    /\ Len(results) = 2
    /\ results[1].status = "OK" /\ results[2].status = "OK"
    /\ results[1].retryCount = 1
    /\ previousContext = results[1].translation
    /\ Len(chunks) = 1 /\ chunks[1].pages = <<1, 2>>
    /\ Len(translationText) > 20

ChapterTitlesOf(text) ==
    LET chapters == SelectSeq(HeadingsOf(text), LAMBDA item : item.kind = "chapter")
    IN  [n \in 1..Len(chapters) |-> chapters[n].text]

\* C38: in the assembled translation the sequence of emitted chapter headings
\* never contains the same title twice in a row, and after each processed OK
\* page the tracked lastChapter equals the most recent non-empty chapterTitle
\* among the OK pages processed so far
C38_ChapterHeadingsNeverRepeat ==
    Assembled =>
        /\ LET titles == ChapterTitlesOf(trim(translationText))
           IN  \A n \in 1..(Len(titles) - 1) : titles[n] # titles[n + 1]
        /\ \A k \in 1..Len(results) :
              IsOK(results, k) =>
                  Assemble(SubSeq(results, 1, k)).lastChapter = ChapterInForce(results, k)

C38_Witness ==
    /\ Assembled
    /\ Len(results) = 3
    /\ \A k \in 1..3 : IsOK(results, k)
    /\ results[1].chapterTitle = Chapter1
    /\ results[2].chapterTitle = Chapter1
    /\ results[3].chapterTitle = <<>>
    /\ ChapterTitlesOf(trim(translationText)) = <<Chapter1>>
    /\ Assemble(results).lastChapter = Chapter1

NoPageOK == \A k \in 1..Len(results) : results[k].status # "OK"

\* the translate pipeline is past its page loop and has saved the translation
TranslationSaved == pipeline = "translate" /\ "translation" \in written

\* C39: if no page has status OK, createChunks returns an empty list, no
\* summarization call is made, and the run still completes normally, writing
\* both output files with empty content
C39_NoOKPageGivesEmptyOutputs ==
    (TranslationSaved /\ NoPageOK) =>
        /\ createChunks(results, DefaultMaxChars) = <<>>
        /\ chunks = <<>>
        /\ summaryCalls = <<>> /\ chunkSummaries = <<>>
        /\ pc \in {"createChunks", "saveSummary", "done"}
        /\ trim(translationText) = <<>>
        /\ pc = "done" =>
              /\ written = {"translation", "summary"}
              /\ trim(structuredSummary) = <<>>
              /\ exitCode = 0

C39_Witness ==
    /\ TranslationSaved /\ NoPageOK
    /\ pc = "done"
    /\ Len(imagePaths) = 2 /\ Len(results) = 2
    /\ results[1].status = "FAILED" /\ results[2].status = "FAILED"
    /\ written = {"translation", "summary"}
    /\ exitCode = 0

============================================================================
